---- MODULE Spec2Model ----
(***************************************************************************)
(* The task control plane of the backend: one task actor (TaskLock) with   *)
(* its action queue, the command handlers of chat_controller.py that       *)
(* enqueue on it, the dispatcher loops (step_solve) that consume it, the   *)
(* background work a dispatcher starts (decomposition, engine execution,   *)
(* the End that Workforce.stop schedules) and the idle timeout of          *)
(* timeout_stream_wrapper.  One actor lifetime of one task id is modelled. *)
(* A dispatcher step runs from one suspension point of step_solve (the     *)
(* wait on the queue, a yield followed by more work) to the next.          *)
(* Five functions are also modelled by themselves, each with a             *)
(* specification of its own: handle_decompose_append_task,                 *)
(* build_conversation_context, on_stream_text, Workforce._post_task and    *)
(* update_sub_tasks.                                                       *)
(***************************************************************************)
EXTENDS Integers, Sequences, FiniteSets, TLC

\* ------------------------------------------------------------------ bounds
MaxPosts == 2        \* start commands (POST /chat): one dispatcher each
MaxCmds == 2         \* actions enqueued by other commands and by engine callbacks
MaxImproves == 1     \* follow-up questions (POST /chat/{id})
MaxChunks == 1       \* streamed text snapshots of one decomposition
MaxBg == 1           \* unfinished units of background work beyond which none is started
MaxQueue == 2        \* queued actions beyond which no command is accepted
MaxTime == 5         \* ticks of the clock
MaxEvents == 3       \* events the wrapped generator yields
TimeoutTicks == 2    \* SSE_TIMEOUT_SECONDS, in ticks

\* ------------------------------------------------- constants of the program
MaxHistoryLength == 100000   \* check_conversation_history_length(max_length)
RecordKeys == 3              \* keys of a task_result record (a dict)
SkipMessageLen == 51         \* len("<summary>Task stopped</summary>Task stopped by user")

\* lengths, in characters, of the texts the agents produce
AnswerLens == {60000}
ResultLens == {120000}

\* numbers of subtasks the decomposer gives
SubtaskCounts == {0, 1}

\* a subtask list is told by where it comes from: the empty list, the list
\* decomposed from the Task of the current turn, a list decomposed from the
\* Task of an earlier turn
Empty == "empty"
ThisTurn == "this_turn"
EarlierTurn == "earlier_turn"

Disp == 1..MaxPosts
NoEngine == [eid |-> 0, state |-> "None", running |-> FALSE]   \* workforce is None
NoTask == [id |-> 0]                                           \* camel_task is None

VARIABLES
    registered,        \* the registry holds the actor of the task id
    status,            \* task_lock.status
    queue,             \* task_lock.queue, FIFO
    history,           \* task_lock.conversation_history
    last_task_result,  \* task_lock.last_task_result, by its length
    cleanups,          \* number of delete_task_lock calls made
    nextSeq,           \* enqueue counter: the order of put_queue calls
    ncmds,             \* commands issued so far, follow-up questions apart
    nimproves,         \* follow-up questions issued so far
    nposts,            \* start commands issued so far
    nextEid,           \* engines constructed so far
    pc,                \* position of each dispatcher
    start_event_loop,  \* step_solve local
    workforce,         \* step_solve local: the engine, or NoEngine (None)
    camel_task,        \* step_solve local: the Task, or NoTask (None)
    disconnected,      \* request.is_disconnected() of each dispatcher's request
    attaches,          \* options.attaches is non-empty
    cur,               \* the item the dispatcher is handling
    trace,             \* calls and yields of the current handler, in code order
    bg,                \* unfinished background work: asyncio tasks, worker threads
    lastEv,            \* enqueue number of the action the latest event came from
    sub_tasks,         \* step_solve local: the subtask list, by its origin
    decompose_sub_tasks,  \* task_lock.decompose_sub_tasks, by its origin
    clock,             \* time.time(), in ticks
    last_data_time,    \* timeout_stream_wrapper local
    generated,         \* events the wrapped generator has yielded so far
    sent,              \* events timeout_stream_wrapper has yielded, with their times
    wrapper,           \* position of timeout_stream_wrapper
    dtask,             \* handle_decompose_append_task: the Task it is called with
    pending,           \* Workforce._pending_tasks
    returned,          \* the list handle_decompose_append_task returned
    batch_calls,       \* the calls of on_stream_batch made, in order
    decomposing,       \* the call made: its arguments and what the decomposer gave
    conversation_history,  \* the history build_conversation_context is given
    fs,                \* the files that exist, by absolute path
    context,           \* the text build_context_for_workforce returned
    built,             \* build_context_for_workforce has returned
    last_content,      \* stream_state["last_content"]
    deltas,            \* the content of the decompose_text actions enqueued, in order
    snapshots,         \* the accumulated texts on_stream_text was called with
    wf,                \* a Workforce: its _task and its _children
    posted,            \* the call of Workforce._post_task made: arguments, puts, parent calls
    updated            \* the call of update_sub_tasks made: arguments and the list after it

taskVars == <<registered, status, queue, history, last_task_result, cleanups, nextSeq, ncmds, nimproves,
              nposts, nextEid, pc, start_event_loop, workforce, camel_task, disconnected,
              attaches, cur, trace, bg, lastEv, sub_tasks, decompose_sub_tasks>>

streamVars == <<clock, last_data_time, generated, sent, wrapper>>

\* handle_decompose_append_task: the Task, the engine's pending tasks, the
\* returned list, the calls of on_stream_batch
decVars == <<dtask, pending, returned, batch_calls, decomposing>>

\* build_conversation_context: the history, the file system, the text
ctxVars == <<conversation_history, fs, context, built>>

\* on_stream_text: its state, what it enqueued, what it was given
textVars == <<last_content, deltas, snapshots>>

\* Workforce._post_task: the engine it is called on, the call
postVars == <<wf, posted>>

\* update_sub_tasks: the call
updVars == <<updated>>

fnVars == <<postVars, updVars>>

pureVars == <<decVars, ctxVars, textVars, fnVars>>

\* what the task control plane leaves alone
sideVars == <<streamVars, pureVars>>

\* what every step but the handling of an End or a SkipTask leaves alone
restVars == <<sideVars, last_task_result>>

vars == <<taskVars, streamVars, pureVars>>

actorVars == <<registered, status, queue, history, cleanups, nextSeq, decompose_sub_tasks>>
localVars == <<start_event_loop, workforce, camel_task, cur, trace, sub_tasks>>

Statuses == {"confirming", "confirmed", "processing", "done"}

\* the stream events (sse_json names)
EventNames == {"confirmed", "wait_confirm", "context_too_long", "error", "end",
               "to_sub_tasks", "add_task", "remove_task", "task_state",
               "decompose_text", "new_task_state", "budget_not_enough"}

\* positions of a dispatcher
ExitPcs == {"exit_disconnect", "exit_stop", "exit_timeout"}
Alive(d) == pc[d] \notin ({"idle"} \cup ExitPcs)

\* ------------------------------------------------------- TaskLock (actor)
NoItem == [kind |-> "none", seq |-> 0, n |-> 0]

\* TaskLock.put_queue: append
put_queue(q, kind, n, sq) == Append(q, [kind |-> kind, seq |-> sq, n |-> n])

\* TaskLock.get_queue: the oldest item
get_queue(q) == Head(q)

\* TaskLock.add_conversation
add_conversation(h, role, shape, chars) ==
    Append(h, [role |-> role, shape |-> shape, chars |-> chars])

\* task_lock.background_tasks
background_tasks == {t \in bg : t.tracked}

\* asyncio.create_task + TaskLock.add_background_task
NewBg(kind, d, eid) ==
    [kind |-> kind, d |-> d, eid |-> eid, st |-> "new", chunks |-> 0, tracked |-> TRUE,
     turn |-> ThisTurn,
     slot |-> CHOOSE i \in 1..(Cardinality(bg) + 1) : \A t \in bg : t.slot # i]

\* Task(content=..., id=...): a new Task begins a turn, and what was decomposed
\* from the Task before it, or is still being decomposed, is of an earlier turn
Age(l) == IF l = ThisTurn THEN EarlierTurn ELSE l
AgeBg(b) == {IF t.kind = "decomp" THEN [t EXCEPT !.turn = EarlierTurn] ELSE t : t \in b}

\* the list a decomposition that returned n subtasks leaves
ListOf(n, turn) == IF n = 0 THEN Empty ELSE turn

\* if not sub_tasks: sub_tasks = getattr(task_lock, "decompose_sub_tasks", [])
StoredIfEmpty(l) == IF l = Empty THEN decompose_sub_tasks ELSE l

\* TaskLock.cleanup: cancel every tracked unit of work.  Untracked work goes
\* on, and so does the worker thread of asyncio.to_thread, which a
\* cancellation of the awaiting task does not stop.
cleanup(b) ==
    {t \in b : ~t.tracked}
    \cup {[t EXCEPT !.st = "orphan", !.tracked = FALSE] :
             t \in {u \in b : u.tracked /\ u.kind = "decomp" /\ u.st = "run"}}

\* task_lock.background_tasks.clear()
clear(b) == {[t EXCEPT !.tracked = FALSE] : t \in b}

\* ---------------------------------------------------- history length check
\* len(entry.get('content', '')): characters of a text, keys of a record
EntryLength(e) == IF e.shape = "record" THEN RecordKeys ELSE e.chars

RECURSIVE SumLengths(_)
SumLengths(h) == IF h = <<>> THEN 0 ELSE EntryLength(Head(h)) + SumLengths(Tail(h))

\* check_conversation_history_length: is_exceeded
check_conversation_history_length(h) == SumLengths(h) > MaxHistoryLength

\* the characters the history really holds
RECURSIVE TotalChars(_)
TotalChars(h) == IF h = <<>> THEN 0 ELSE Head(h).chars + TotalChars(Tail(h))

\* ------------------------------------------------------------ the engine
NewEngine(eid) == [eid |-> eid, state |-> "IDLE", running |-> FALSE]
EnginePause(w) == IF w.state = "RUNNING" THEN [w EXCEPT !.state = "PAUSED"] ELSE w
EngineResume(w) == IF w.state = "PAUSED" THEN [w EXCEPT !.state = "RUNNING"] ELSE w
EngineStop(w) == [w EXCEPT !.state = "STOPPED", !.running = FALSE]
EngineStopGracefully(w) == [w EXCEPT !.state = "STOPPED"]

\* ------------------------------------------- handle_decompose_append_task
\* A Task id is a sequence of numbers, "1.2" is <<1, 2>>; a text is a
\* sequence of words.
TaskIds == {<<1>>, <<7>>}
Contents == {<<"q">>, <<"q", "r">>}
Contexts == {<<>>, <<"h">>}
Marker == <<"=== CURRENT TASK ===">>

\* Task(content=..., id=...)
Task(id, content) == [id |-> id, content |-> content, subtasks |-> <<>>, state |-> "OPEN"]

NoCall == [task |-> Task(<<>>, <<>>), valid |-> FALSE, context |-> <<>>, kind |-> "none",
           batches |-> <<>>, lib |-> <<>>, cb |-> FALSE, seen |-> <<>>]

\* the k-th subtask the decomposer parses out of the agent's answer
SubOf(id, k) == Task(Append(id, k), IF k = 1 THEN <<"s1">> ELSE <<"s2">>)

\* what one batch of the decomposer's generator can hold, by subtask numbers
BatchShapes == {<<>>, <<1>>, <<2>>, <<1, 2>>}

\* the sequences of at most MaxBatches batches
MaxBatches == 2
BatchSeqs == UNION {[1..n -> BatchShapes] : n \in 0..MaxBatches}

RECURSIVE Flatten(_)
Flatten(bs) == IF bs = <<>> THEN <<>> ELSE Head(bs) \o Flatten(Tail(bs))

Subs(id, shape) == [i \in 1..Len(shape) |-> SubOf(id, shape[i])]

\* mutation of handle_decompose_append_task: the fallback subtask is not returned
handle_decompose_no_fallback(task, pend, valid, coordinator_context, result, lib, cb) ==
    IF ~valid
    THEN [task |-> [task EXCEPT !.state = "FAILED"], pending |-> pend, ret |-> <<task>>,
          calls |-> <<>>, seen |-> <<>>]
    ELSE LET original_content == task.content
             task_with_context ==
                 IF coordinator_context # <<>>
                 THEN coordinator_context \o Marker \o original_content
                 ELSE original_content
             batches == [i \in 1..Len(result.batches) |-> Subs(task.id, result.batches[i])]
             collected == Flatten(batches)
             subtasks == IF result.kind = "generator" /\ collected = <<>> /\ lib # <<>>
                         THEN lib
                         ELSE collected
             fallback_task == Task(Append(task.id, 1), original_content)
             final == subtasks
             streamed == IF cb /\ result.kind = "generator"
                         THEN [i \in 1..Len(batches) |->
                                  [tasks |-> batches[i], is_final |-> FALSE]]
                         ELSE <<>>
         IN  [task |-> [task EXCEPT !.state = "FAILED", !.content = original_content,
                                    !.subtasks = IF subtasks = <<>> THEN <<fallback_task>>
                                                 ELSE lib],
              pending |-> subtasks \o pend,
              ret |-> final,
              calls |-> streamed
                        \o (IF cb THEN <<[tasks |-> final, is_final |-> TRUE]>> ELSE <<>>),
              seen |-> task_with_context]

\* Workforce.handle_decompose_append_task, as its two callers call it
\* (reset=False): result is what _decompose_task returns, a generator of
\* batches or a list, lib is what Task.decompose left in task.subtasks, cb
\* tells whether on_stream_batch is given
handle_decompose_append_task(task, pend, valid, coordinator_context, result, lib, cb) ==
    IF ~valid
    THEN [task |-> [task EXCEPT !.state = "FAILED"], pending |-> pend, ret |-> <<task>>,
          calls |-> <<>>, seen |-> <<>>]
    ELSE LET original_content == task.content
             task_with_context ==
                 IF coordinator_context # <<>>
                 THEN coordinator_context \o Marker \o original_content
                 ELSE original_content
             batches == [i \in 1..Len(result.batches) |-> Subs(task.id, result.batches[i])]
             collected == Flatten(batches)
             subtasks == IF result.kind = "generator" /\ collected = <<>> /\ lib # <<>>
                         THEN lib
                         ELSE collected
             fallback_task == Task(Append(task.id, 1), original_content)
             final == IF subtasks = <<>> THEN <<fallback_task>> ELSE subtasks
             streamed == IF cb /\ result.kind = "generator"
                         THEN [i \in 1..Len(batches) |->
                                  [tasks |-> batches[i], is_final |-> FALSE]]
                         ELSE <<>>
         IN  [task |-> [task EXCEPT !.state = "FAILED", !.content = original_content,
                                    !.subtasks = IF subtasks = <<>> THEN <<fallback_task>>
                                                 ELSE lib],
              pending |-> subtasks \o pend,
              ret |-> final,
              calls |-> streamed
                        \o (IF cb THEN <<[tasks |-> final, is_final |-> TRUE]>> ELSE <<>>),
              seen |-> task_with_context]

\* the number of subtasks a decomposition leaves the dispatcher with, when the
\* decomposer gave n
Decomposed(n) ==
    Len(handle_decompose_append_task(Task(<<1>>, <<"q">>), <<>>, TRUE, <<>>,
            [kind |-> "generator", batches |-> IF n = 0 THEN <<>> ELSE <<<<1>>>>],
            <<>>, TRUE).ret)

\* -------------------------------------------------- Workforce._post_task
None == "None"
NoPost == [task |-> None, assignee_id |-> None, puts |-> <<>>, parent |-> <<>>]

\* ids of Tasks, node ids of workers, agent ids of their agents
PostTaskIds == {"main", "sub_1", "sub_2"}
NodeIds == {"worker_1", "worker_2"}
AgentOf(node_id) == IF node_id = "worker_1" THEN "agent_1" ELSE "agent_2"

\* a child of the engine: a worker with its node_id, whose worker has an
\* agent_id or has none
Child(node_id, has_agent) ==
    [node_id |-> node_id, agent_id |-> IF has_agent THEN AgentOf(node_id) ELSE None]

ChildSet == {Child(n, a) : n \in NodeIds, a \in BOOLEAN}
MaxChildren == 2
ChildLists == UNION {[1..k -> ChildSet] : k \in 0..MaxChildren}

\* Workforce._get_agent_id_from_node_id: the agent id of the first child
\* with this node_id that has one, or None
RECURSIVE _get_agent_id_from_node_id(_, _)
_get_agent_id_from_node_id(children, node_id) ==
    IF children = <<>> THEN None
    ELSE IF Head(children).node_id = node_id /\ Head(children).agent_id # None
    THEN Head(children).agent_id
    ELSE _get_agent_id_from_node_id(Tail(children), node_id)

ActionAssignTaskData(assignee_id, task_id, state) ==
    [action |-> "assign_task", assignee_id |-> assignee_id, task_id |-> task_id,
     state |-> state]

\* Workforce._post_task: the puts on the queue and the calls of the parent's
\* _post_task it makes
_post_task(self, task, assignee_id) ==
    LET agent_id == _get_agent_id_from_node_id(self.children, assignee_id)
    IN  [task |-> task,
         assignee_id |-> assignee_id,
         puts |-> IF self.task # None /\ task # self.task /\ agent_id = None
                  THEN <<ActionAssignTaskData(agent_id, task, "running")>>
                  ELSE <<>>,
         parent |-> << <<task, assignee_id>> >>]

\* ---------------------------------------------------- update_sub_tasks
NoUpdate == [sub_tasks |-> <<>>, update_tasks |-> <<>>, result |-> <<>>]

\* if depth > 5
MaxDepth == 5

\* ids of subtasks; the Task with an id, a content and subtasks
SubtaskIds == {1, 2, 3}
Subtask(id, subtasks) == [id |-> id, content |-> "old", subtasks |-> subtasks]

\* lists of subtasks, nested as deep as there are ids: at each level the
\* Task with the next id, which holds the next level, and a Task 3 after it
MaxNesting == 7
RECURSIVE Nested(_)
Nested(ids) ==
    IF ids = <<>> THEN <<>>
    ELSE <<Subtask(Head(ids), Nested(Tail(ids))), Subtask(3, <<>>)>>

SubtaskLists == {Nested(ids) : ids \in UNION {[1..k -> {1, 2}] : k \in 0..MaxNesting}}

\* update_tasks: TaskContent by id
UpdateMaps == UNION {[K -> {"new"}] : K \in SUBSET SubtaskIds}

\* mutation of update_sub_tasks: the subtasks of a kept Task are left alone
RECURSIVE update_sub_tasks_flat(_, _, _)
update_sub_tasks_flat(tasks, update_tasks, depth) ==
    IF depth > MaxDepth THEN tasks
    ELSE IF tasks = <<>> THEN <<>>
    ELSE LET item == Head(tasks)
             rest == update_sub_tasks_flat(Tail(tasks), update_tasks, depth)
         IN  IF item.id \in DOMAIN update_tasks
             THEN <<[item EXCEPT !.content = update_tasks[item.id]]>> \o rest
             ELSE rest

\* update_sub_tasks works on the list in place: this is the list after the
\* call.  A call at a depth above 5 returns without touching its list.
RECURSIVE update_sub_tasks(_, _, _)
update_sub_tasks(tasks, update_tasks, depth) ==
    IF depth > MaxDepth THEN tasks
    ELSE IF tasks = <<>> THEN <<>>
    ELSE LET item == Head(tasks)
             rest == update_sub_tasks(Tail(tasks), update_tasks, depth)
         IN  IF item.id \in DOMAIN update_tasks
             THEN <<[item EXCEPT !.content = update_tasks[item.id],
                                 !.subtasks = update_sub_tasks(item.subtasks, update_tasks,
                                                               depth + 1)]>> \o rest
             ELSE rest

\* ------------------------------------------------------------------ Init
Init ==
    /\ registered = FALSE
    /\ status = "confirming"
    /\ queue = <<>>
    /\ history = <<>>
    /\ last_task_result = 0
    /\ cleanups = 0
    /\ nextSeq = 1
    /\ ncmds = 0
    /\ nimproves = 0
    /\ nposts = 0
    /\ nextEid = 1
    /\ pc = [d \in Disp |-> "idle"]
    /\ start_event_loop = [d \in Disp |-> TRUE]
    /\ workforce = [d \in Disp |-> NoEngine]
    /\ camel_task = [d \in Disp |-> NoTask]
    /\ disconnected = [d \in Disp |-> FALSE]
    /\ attaches = [d \in Disp |-> FALSE]
    /\ cur = [d \in Disp |-> NoItem]
    /\ trace = [d \in Disp |-> <<>>]
    /\ bg = {}
    /\ lastEv = 0
    /\ sub_tasks = [d \in Disp |-> Empty]
    /\ decompose_sub_tasks = Empty
    /\ clock = 0
    /\ last_data_time = 0
    /\ generated = 0
    /\ sent = <<>>
    /\ wrapper = "anext"
    /\ dtask = [id |-> <<>>, content |-> <<>>, subtasks |-> <<>>, state |-> "OPEN"]
    /\ pending = <<>>
    /\ returned = <<>>
    /\ batch_calls = <<>>
    /\ decomposing = [task |-> [id |-> <<>>, content |-> <<>>, subtasks |-> <<>>,
                                 state |-> "OPEN"],
                      valid |-> FALSE, context |-> <<>>, kind |-> "none", batches |-> <<>>,
                      lib |-> <<>>, cb |-> FALSE, seen |-> <<>>]
    /\ conversation_history = <<>>
    /\ fs = {}
    /\ context = <<>>
    /\ built = FALSE
    /\ last_content = <<>>
    /\ deltas = <<>>
    /\ snapshots = <<>>
    /\ wf = [task |-> None, children |-> <<>>]
    /\ posted = NoPost
    /\ updated = NoUpdate

\* ------------------------------------------------- command handlers
\* POST /chat: get_or_create_task_lock, enqueue Improve, start a dispatcher
post(d) ==
    /\ d = nposts + 1
    /\ registered \/ cleanups = 0
    /\ Len(queue) < MaxQueue
    /\ nposts' = nposts + 1
    /\ registered' = TRUE
    /\ queue' = put_queue(queue, "improve", 0, nextSeq)
    /\ nextSeq' = nextSeq + 1
    /\ \E a \in BOOLEAN : attaches' = [attaches EXCEPT ![d] = a]
    /\ pc' = [pc EXCEPT ![d] = "top"]
    /\ UNCHANGED <<status, history, cleanups, ncmds, nimproves, nextEid, start_event_loop,
                   workforce, camel_task, disconnected, cur, trace, bg, lastEv, sub_tasks,
                   decompose_sub_tasks, restVars>>

\* what every command but the start command does: get_task_lock, put_queue
Enqueue(kind, n) ==
    /\ registered
    /\ Len(queue) < MaxQueue
    /\ IF kind = "improve"
       THEN nimproves < MaxImproves /\ nimproves' = nimproves + 1 /\ UNCHANGED ncmds
       ELSE ncmds < MaxCmds /\ ncmds' = ncmds + 1 /\ UNCHANGED nimproves
    /\ queue' = put_queue(queue, kind, n, nextSeq)
    /\ nextSeq' = nextSeq + 1
    /\ UNCHANGED <<registered, history, cleanups, nposts, nextEid, pc, disconnected,
                   attaches, localVars, lastEv, decompose_sub_tasks, restVars>>

\* mutation of improve: the reset forgets the last task result
improveForgets ==
    /\ registered
    /\ Len(queue) < MaxQueue
    /\ nimproves < MaxImproves
    /\ nimproves' = nimproves + 1
    /\ queue' = put_queue(queue, "improve", 0, nextSeq)
    /\ nextSeq' = nextSeq + 1
    /\ IF status = "done"
       THEN status' = "confirming" /\ bg' = clear(bg) /\ last_task_result' = 0
       ELSE UNCHANGED <<status, bg, last_task_result>>
    /\ UNCHANGED <<registered, history, cleanups, ncmds, nposts, nextEid, pc, disconnected,
                   attaches, localVars, lastEv, decompose_sub_tasks, sideVars>>

\* mutation of improve: the reset is made whatever the status is
improveAnyStatus ==
    /\ Enqueue("improve", 0)
    /\ status' = "confirming"
    /\ bg' = clear(bg)

\* POST /chat/{id}
improve ==
    /\ Enqueue("improve", 0)
    /\ IF status = "done"
       THEN status' = "confirming" /\ bg' = clear(bg)
       ELSE UNCHANGED <<status, bg>>

\* mutation of supplement: the status is not checked
supplementUnchecked ==
    /\ Enqueue("supplement", 0)
    /\ UNCHANGED <<status, bg>>

\* PUT /chat/{id}: unless the task is done the handler raises UserException,
\* which ends the command's own request
supplement ==
    /\ registered
    /\ IF status # "done"
       THEN /\ ncmds < MaxCmds
            /\ ncmds' = ncmds + 1
            /\ UNCHANGED <<actorVars, nimproves, nposts, nextEid, pc, disconnected, attaches,
                           localVars, lastEv, bg, restVars>>
       ELSE /\ Enqueue("supplement", 0)
            /\ UNCHANGED <<status, bg>>

\* DELETE /chat/{id}
stop ==
    /\ Enqueue("stop", 0)
    /\ UNCHANGED <<status, bg>>

\* POST /chat/{id}/add-task
add_task ==
    /\ Enqueue("add_task", 0)
    /\ UNCHANGED <<status, bg>>

\* DELETE /chat/{project_id}/remove-task/{task_id}
remove_task ==
    /\ Enqueue("remove_task", 0)
    /\ UNCHANGED <<status, bg>>

\* item.project_id of a SkipTask: options.project_id, or another id
OwnProject == 0
OtherProject == 1

\* POST /chat/{project_id}/skip-task
skip_task ==
    /\ Enqueue("skip_task", OwnProject)
    /\ UNCHANGED <<status, bg>>

\* a SkipTask put on the actor's queue by another holder of the actor than
\* the skip-task command, carrying another project id
put_skip_task ==
    /\ Enqueue("skip_task", OtherProject)
    /\ UNCHANGED <<status, bg>>

\* actions enqueued by the engine's callbacks and by the task controller
CallbackKinds == {"start", "pause", "resume", "update_task", "new_agent", "end",
                  "task_state", "new_task_state", "budget_not_enough"}

PayloadOf(kind) ==
    IF kind = "end" THEN ResultLens
    ELSE IF kind = "new_task_state" THEN {0, 1}   \* data['content'] empty or not
    ELSE {0}

Callback ==
    \E kind \in CallbackKinds : \E n \in PayloadOf(kind) :
        /\ Enqueue(kind, n)
        /\ UNCHANGED <<status, bg>>

\* the client of dispatcher d's request goes away
Disconnect(d) ==
    /\ Alive(d)
    /\ ~disconnected[d]
    /\ disconnected' = [disconnected EXCEPT ![d] = TRUE]
    /\ UNCHANGED <<actorVars, ncmds, nimproves, nposts, nextEid, pc, attaches, localVars, bg,
                   lastEv, restVars>>

\* ------------------------------------------------- dispatcher: helpers
Set(f, d, v) == [f EXCEPT ![d] = v]

HasYield(tr) == \E i \in 1..Len(tr) : tr[i] \in EventNames

AtCap == Cardinality(bg) >= MaxBg

\* mutation of Ready: the dequeue comes before the disconnect check
ReadyUnchecked(d) ==
    /\ queue # <<>>
    /\ pc[d] \in {"wait", "top"}

\* the dispatcher is about to return from task_lock.get_queue(): it passed the
\* disconnect check of this iteration and the queue holds an item
Ready(d) ==
    /\ queue # <<>>
    /\ pc[d] = "wait" \/ (pc[d] = "top" /\ ~disconnected[d])

\* the branch of the if/elif chain that the head item selects
Takes(d, kind) ==
    /\ Ready(d)
    /\ ~start_event_loop[d]
    /\ get_queue(queue).kind = kind

\* mutation of Take: the item is read and stays in the queue
TakePeeks(d, tr, l) ==
    /\ queue' = queue
    /\ cur' = Set(cur, d, get_queue(queue))
    /\ trace' = Set(trace, d, tr)
    /\ pc' = Set(pc, d, l)
    /\ lastEv' = IF HasYield(tr) THEN get_queue(queue).seq ELSE lastEv
    /\ UNCHANGED <<nextSeq, ncmds, nimproves, nposts, disconnected, attaches, restVars>>

\* dequeue the head item, run its handler up to its next suspension point:
\* tr lists the calls and yields made, l is where the dispatcher stands then,
\* r is what task_lock.last_task_result holds then
TakeSetting(d, tr, l, r) ==
    /\ queue' = Tail(queue)
    /\ cur' = Set(cur, d, get_queue(queue))
    /\ trace' = Set(trace, d, tr)
    /\ pc' = Set(pc, d, l)
    /\ lastEv' = IF HasYield(tr) THEN get_queue(queue).seq ELSE lastEv
    /\ last_task_result' = r
    /\ UNCHANGED <<nextSeq, ncmds, nimproves, nposts, disconnected, attaches, sideVars>>

\* the same by a handler that does not assign task_lock.last_task_result
Take(d, tr, l) == TakeSetting(d, tr, l, last_task_result)

\* resume the handler of cur[d] after a yield, up to its next suspension point
Cont(d, tr, l) ==
    /\ trace' = Set(trace, d, trace[d] \o tr)
    /\ pc' = Set(pc, d, l)
    /\ lastEv' = IF HasYield(tr) THEN cur[d].seq ELSE lastEv
    /\ UNCHANGED <<cur, ncmds, nimproves, nposts, disconnected, attaches, restVars>>

\* delete_task_lock: cleanup of the actor, then the registry forgets it
delete_task_lock(b) ==
    /\ bg' = cleanup(b)
    /\ registered' = FALSE
    /\ cleanups' = cleanups + 1

\* Workforce.stop: the engine stops, an End is scheduled as tracked work
WorkforceStopBg(d, eid) == NewBg("put_end", d, eid)

\* ------------------------------------------------- dispatcher: the loop
\* while True: if await request.is_disconnected(): ... break
OnDisconnect(d) ==
    /\ pc[d] = "top"
    /\ disconnected[d]
    /\ LET w == workforce[d]
           stopped == w # NoEngine /\ w.running
           w1 == IF stopped THEN EngineStop(w) ELSE w
           w2 == IF w # NoEngine THEN EngineStopGracefully(w1) ELSE w
           b1 == IF stopped THEN bg \cup {WorkforceStopBg(d, w.eid)} ELSE bg
       IN  /\ workforce' = Set(workforce, d, w2)
           /\ delete_task_lock(b1)
           /\ trace' = Set(trace, d,
                  (IF stopped THEN <<"workforce.stop">> ELSE <<>>)
                  \o (IF w # NoEngine THEN <<"workforce.stop_gracefully">> ELSE <<>>)
                  \o <<"delete_task_lock">>)
    /\ status' = "done"
    /\ pc' = Set(pc, d, "exit_disconnect")
    /\ cur' = Set(cur, d, NoItem)
    /\ UNCHANGED <<queue, history, nextSeq, ncmds, nimproves, nposts, nextEid, start_event_loop,
                   camel_task, disconnected, attaches, lastEv, sub_tasks, decompose_sub_tasks,
                   restVars>>

\* item = await task_lock.get_queue() on an empty queue: the dispatcher suspends
Block(d) ==
    /\ pc[d] = "top"
    /\ ~disconnected[d]
    /\ queue = <<>>
    /\ pc' = Set(pc, d, "wait")
    /\ cur' = Set(cur, d, NoItem)
    /\ trace' = Set(trace, d, <<>>)
    /\ UNCHANGED <<actorVars, ncmds, nimproves, nposts, nextEid, start_event_loop, workforce,
                   camel_task, disconnected, attaches, bg, lastEv, sub_tasks, restVars>>

\* mutation of DequeueFail: a failing dequeue ends the loop
DequeueFailBreaks(d) ==
    /\ pc[d] = "wait"
    /\ pc' = Set(pc, d, "exit_timeout")
    /\ UNCHANGED <<actorVars, ncmds, nimproves, nposts, nextEid, localVars, disconnected,
                   attaches, bg, lastEv, restVars>>

\* except Exception around get_queue: continue
DequeueFail(d) ==
    /\ pc[d] = "wait"
    /\ pc' = Set(pc, d, "top")
    /\ UNCHANGED <<actorVars, ncmds, nimproves, nposts, nextEid, localVars, disconnected,
                   attaches, bg, lastEv, restVars>>

\* timeout_stream_wrapper: no event for SSE_TIMEOUT_SECONDS, wait_for cancels
\* the pending __anext__; the CancelledError is no Exception, nothing catches it
IdleTimeout(d) ==
    /\ pc[d] = "wait"
    /\ queue = <<>>
    /\ pc' = Set(pc, d, "exit_timeout")
    /\ UNCHANGED <<actorVars, ncmds, nimproves, nposts, nextEid, localVars, disconnected,
                   attaches, bg, lastEv, restVars>>

\* ------------------------------------------------- dispatcher: handlers
\* mutation of HandleImprove: the fallback message of a failed answer is
\* appended to the history
HandleImproveKeepsFallback(d) ==
    /\ Ready(d)
    /\ start_event_loop[d] \/ get_queue(queue).kind = "improve"
    /\ start_event_loop' = Set(start_event_loop, d, FALSE)
    /\ IF check_conversation_history_length(history)
       THEN /\ Take(d, <<"context_too_long">>, "top")
            /\ UNCHANGED history
       ELSE \E complex \in (IF attaches[d] THEN {TRUE} ELSE BOOLEAN) :
            LET cls == IF attaches[d] THEN <<>> ELSE <<"question_confirm">>
            IN  IF complex
                THEN /\ Take(d, cls \o <<"confirmed">>, "improve_setup")
                     /\ UNCHANGED history
                ELSE \E ok \in BOOLEAN : \E a \in AnswerLens :
                     /\ history' = add_conversation(history, "assistant", "text", a)
                     /\ Take(d, cls \o <<"question_agent.step">>
                                \o (IF ok THEN <<"add_conversation">> ELSE <<>>)
                                \o <<"wait_confirm">>, "top")
    /\ UNCHANGED <<sub_tasks, decompose_sub_tasks, registered, status, cleanups, nextEid, workforce, camel_task, bg>>

\* if item.action == Action.improve or start_event_loop: up to the yield of
\* context_too_long, wait_confirm or confirmed
HandleImprove(d) ==
    /\ Ready(d)
    /\ start_event_loop[d] \/ get_queue(queue).kind = "improve"
    /\ start_event_loop' = Set(start_event_loop, d, FALSE)
    /\ IF check_conversation_history_length(history)
       THEN /\ Take(d, <<"context_too_long">>, "top")
            /\ UNCHANGED history
       ELSE \E complex \in (IF attaches[d] THEN {TRUE} ELSE BOOLEAN) :
            LET cls == IF attaches[d] THEN <<>> ELSE <<"question_confirm">>
            IN  IF complex
                THEN /\ Take(d, cls \o <<"confirmed">>, "improve_setup")
                     /\ UNCHANGED history
                ELSE \E ok \in BOOLEAN : \E a \in AnswerLens :
                     /\ history' = IF ok THEN add_conversation(history, "assistant", "text", a)
                                   ELSE history
                     /\ Take(d, cls \o <<"question_agent.step">>
                                \o (IF ok THEN <<"add_conversation">> ELSE <<>>)
                                \o <<"wait_confirm">>, "top")
    /\ UNCHANGED <<sub_tasks, decompose_sub_tasks, registered, status, cleanups, nextEid, workforce, camel_task, bg>>

\* the complex branch after yield confirmed: engine, status, Task, decomposition
ImproveSetup(d) ==
    /\ pc[d] = "improve_setup"
    /\ LET w == workforce[d]
           fresh == w = NoEngine
           made == IF fresh THEN <<"construct_workforce">> ELSE <<>>
       IN  \E outcome \in (IF fresh THEN {"ok", "exc", "exc_late", "budget"} ELSE {"ok"}) :
           CASE outcome = "ok" ->
                  LET w1 == IF fresh THEN NewEngine(nextEid) ELSE w
                  IN  /\ ~AtCap
                      /\ workforce' = Set(workforce, d, w1)
                      /\ nextEid' = IF fresh THEN nextEid + 1 ELSE nextEid
                      /\ status' = "confirmed"
                      /\ camel_task' = Set(camel_task, d, [id |-> 1])
                      /\ sub_tasks' = Set(sub_tasks, d, Age(sub_tasks[d]))
                      /\ decompose_sub_tasks' = Age(decompose_sub_tasks)
                      /\ bg' = AgeBg(bg) \cup {NewBg("decomp", d, w1.eid)}
                      /\ Cont(d, made \o <<"Task", "run_decomposition">>, "top")
             [] outcome = "exc" ->
                  /\ Cont(d, made \o <<"error">>, "top")
                  /\ UNCHANGED <<workforce, nextEid, status, camel_task, bg, sub_tasks,
                                 decompose_sub_tasks>>
             [] outcome = "exc_late" ->
                  /\ workforce' = Set(workforce, d, NewEngine(nextEid))
                  /\ nextEid' = nextEid + 1
                  /\ Cont(d, made \o <<"add_single_agent_worker", "error">>, "top")
                  /\ UNCHANGED <<status, camel_task, bg, sub_tasks, decompose_sub_tasks>>
             [] outcome = "budget" ->
                  /\ Cont(d, made \o <<"budget_not_enough">>, "top")
                  /\ UNCHANGED <<workforce, nextEid, status, camel_task, bg, sub_tasks,
                                 decompose_sub_tasks>>
    /\ UNCHANGED <<registered, queue, history, cleanups, nextSeq, start_event_loop>>

\* mutation of HandleUpdateTask: the failed assertion ends the loop
HandleUpdateTaskFatal(d) ==
    /\ Takes(d, "update_task")
    /\ Take(d, IF camel_task[d] # NoTask THEN <<"to_sub_tasks">> ELSE <<"error">>,
            IF camel_task[d] # NoTask THEN "top" ELSE "exit_timeout")
    /\ sub_tasks' = IF camel_task[d] # NoTask
                    THEN Set(sub_tasks, d, StoredIfEmpty(sub_tasks[d]))
                    ELSE sub_tasks
    /\ UNCHANGED <<decompose_sub_tasks, registered, status, history, cleanups, nextEid, start_event_loop,
                   workforce, camel_task, bg>>

\* elif item.action == Action.update_task
HandleUpdateTask(d) ==
    /\ Takes(d, "update_task")
    /\ Take(d, IF camel_task[d] # NoTask THEN <<"to_sub_tasks">> ELSE <<"error">>, "top")
    /\ sub_tasks' = IF camel_task[d] # NoTask
                    THEN Set(sub_tasks, d, StoredIfEmpty(sub_tasks[d]))
                    ELSE sub_tasks
    /\ UNCHANGED <<decompose_sub_tasks, registered, status, history, cleanups, nextEid, start_event_loop,
                   workforce, camel_task, bg>>

\* elif item.action == Action.add_task
HandleAddTask(d) ==
    /\ Takes(d, "add_task")
    /\ Take(d, IF camel_task[d] = NoTask \/ workforce[d] = NoEngine
               THEN <<"error">>
               ELSE <<"workforce.add_task", "add_task">>, "top")
    /\ UNCHANGED <<sub_tasks, decompose_sub_tasks, registered, status, history, cleanups, nextEid, start_event_loop,
                   workforce, camel_task, bg>>

\* elif item.action == Action.remove_task
HandleRemoveTask(d) ==
    /\ Takes(d, "remove_task")
    /\ Take(d, IF workforce[d] = NoEngine
               THEN <<"error">>
               ELSE <<"workforce.remove_task", "remove_task">>, "top")
    /\ UNCHANGED <<sub_tasks, decompose_sub_tasks, registered, status, history, cleanups, nextEid, start_event_loop,
                   workforce, camel_task, bg>>

\* mutation of HandleSkipTask: the history is started anew with the skip's entry
HandleSkipTaskForgets(d) ==
    /\ Takes(d, "skip_task")
    /\ IF status = "done"
       THEN /\ Take(d, <<>>, "top")
            /\ UNCHANGED <<status, history, workforce, camel_task>>
       ELSE LET w == workforce[d]
                own == w # NoEngine /\ get_queue(queue).n = OwnProject
            IN  /\ workforce' = IF own THEN Set(workforce, d, NoEngine) ELSE workforce
                /\ status' = "done"
                /\ history' = add_conversation(<<>>, "task_result", "record", SkipMessageLen)
                /\ camel_task' = Set(camel_task, d, NoTask)
                /\ TakeSetting(d, (IF own /\ w.running THEN <<"BaseWorkforce.stop">> ELSE <<>>)
                                  \o (IF own THEN <<"workforce.stop_gracefully">> ELSE <<>>)
                                  \o <<"add_conversation", "end">>, "top", SkipMessageLen)
    /\ UNCHANGED <<sub_tasks, decompose_sub_tasks, registered, cleanups, nextEid, start_event_loop, bg>>

\* elif item.action == Action.skip_task
HandleSkipTask(d) ==
    /\ Takes(d, "skip_task")
    /\ IF status = "done"
       THEN /\ Take(d, <<>>, "top")
            /\ UNCHANGED <<status, history, workforce, camel_task>>
       ELSE LET w == workforce[d]
                own == w # NoEngine /\ get_queue(queue).n = OwnProject
            IN  /\ workforce' = IF own THEN Set(workforce, d, NoEngine) ELSE workforce
                /\ status' = "done"
                /\ history' = add_conversation(history, "task_result", "record", SkipMessageLen)
                /\ camel_task' = Set(camel_task, d, NoTask)
                /\ TakeSetting(d, (IF own /\ w.running THEN <<"BaseWorkforce.stop">> ELSE <<>>)
                                  \o (IF own THEN <<"workforce.stop_gracefully">> ELSE <<>>)
                                  \o <<"add_conversation", "end">>, "top", SkipMessageLen)
    /\ UNCHANGED <<sub_tasks, decompose_sub_tasks, registered, cleanups, nextEid, start_event_loop, bg>>

\* elif item.action == Action.start, with room for cap units of background work
HandleStartUpTo(d, cap) ==
    /\ Takes(d, "start")
    /\ LET w == workforce[d]
       IN  IF check_conversation_history_length(history)
           THEN /\ Take(d, <<"context_too_long">>, "top")
                /\ UNCHANGED <<status, workforce, bg, sub_tasks>>
           ELSE IF w = NoEngine
           THEN /\ Take(d, <<>>, "top")
                /\ UNCHANGED <<status, workforce, bg, sub_tasks>>
           ELSE IF w.state = "PAUSED"
           THEN /\ workforce' = Set(workforce, d, EngineResume(w))
                /\ Take(d, <<"workforce.resume">>, "top")
                /\ UNCHANGED <<status, bg, sub_tasks>>
           ELSE /\ Cardinality(bg) < cap
                /\ status' = "processing"
                /\ sub_tasks' = Set(sub_tasks, d, StoredIfEmpty(sub_tasks[d]))
                /\ bg' = bg \cup {NewBg("exec", d, w.eid)}
                /\ Take(d, <<"node_start">>, "top")
                /\ UNCHANGED workforce
    /\ UNCHANGED <<decompose_sub_tasks, registered, history, cleanups, nextEid, start_event_loop, camel_task>>

\* elif item.action == Action.start
HandleStart(d) == HandleStartUpTo(d, MaxBg)

\* the branches that only forward the item as an event
PassThrough == {"task_state", "decompose_text", "decompose_progress"}
EventOf(kind) == IF kind = "decompose_progress" THEN "to_sub_tasks" ELSE kind

HandlePassThrough(d) ==
    /\ Ready(d)
    /\ ~start_event_loop[d]
    /\ get_queue(queue).kind \in PassThrough
    /\ Take(d, <<EventOf(get_queue(queue).kind)>>, "top")
    /\ UNCHANGED <<sub_tasks, decompose_sub_tasks, registered, status, history, cleanups, nextEid, start_event_loop,
                   workforce, camel_task, bg>>

\* mutation of HandlePause: the engine's pause is called twice
HandlePauseTwice(d) ==
    /\ Takes(d, "pause")
    /\ LET w == workforce[d]
       IN  IF w # NoEngine
           THEN /\ workforce' = Set(workforce, d, EnginePause(w))
                /\ Take(d, <<"workforce.pause", "workforce.pause">>, "top")
           ELSE /\ Take(d, <<>>, "top")
                /\ UNCHANGED workforce
    /\ UNCHANGED <<sub_tasks, decompose_sub_tasks, registered, status, history, cleanups, nextEid, start_event_loop,
                   camel_task, bg>>

\* elif item.action == Action.pause
HandlePause(d) ==
    /\ Takes(d, "pause")
    /\ LET w == workforce[d]
       IN  IF w # NoEngine
           THEN /\ workforce' = Set(workforce, d, EnginePause(w))
                /\ Take(d, <<"workforce.pause">>, "top")
           ELSE /\ Take(d, <<>>, "top")
                /\ UNCHANGED workforce
    /\ UNCHANGED <<sub_tasks, decompose_sub_tasks, registered, status, history, cleanups, nextEid, start_event_loop,
                   camel_task, bg>>

\* elif item.action == Action.resume
HandleResume(d) ==
    /\ Takes(d, "resume")
    /\ LET w == workforce[d]
       IN  IF w # NoEngine
           THEN /\ workforce' = Set(workforce, d, EngineResume(w))
                /\ Take(d, <<"workforce.resume">>, "top")
           ELSE /\ Take(d, <<>>, "top")
                /\ UNCHANGED workforce
    /\ UNCHANGED <<sub_tasks, decompose_sub_tasks, registered, status, history, cleanups, nextEid, start_event_loop,
                   camel_task, bg>>

\* mutation of HandleBudget: the engine is not paused
HandleBudgetNoPause(d) ==
    /\ Takes(d, "budget_not_enough")
    /\ LET w == workforce[d]
       IN  IF w # NoEngine
           THEN /\ workforce' = workforce
                /\ Take(d, <<"budget_not_enough">>, "top")
           ELSE /\ Take(d, <<"budget_not_enough">>, "top")
                /\ UNCHANGED workforce
    /\ UNCHANGED <<sub_tasks, decompose_sub_tasks, registered, status, history, cleanups, nextEid, start_event_loop,
                   camel_task, bg>>

\* elif item.action == Action.budget_not_enough
HandleBudget(d) ==
    /\ Takes(d, "budget_not_enough")
    /\ LET w == workforce[d]
       IN  IF w # NoEngine
           THEN /\ workforce' = Set(workforce, d, EnginePause(w))
                /\ Take(d, <<"workforce.pause", "budget_not_enough">>, "top")
           ELSE /\ Take(d, <<"budget_not_enough">>, "top")
                /\ UNCHANGED workforce
    /\ UNCHANGED <<sub_tasks, decompose_sub_tasks, registered, status, history, cleanups, nextEid, start_event_loop,
                   camel_task, bg>>

\* mutation of HandleNewTaskState: new_task_state is yielded before end
HandleNewTaskStateFirst(d) ==
    /\ Takes(d, "new_task_state")
    /\ IF camel_task[d] = NoTask
       THEN /\ Take(d, <<"error">>, "top")
            /\ UNCHANGED <<history, camel_task, sub_tasks, decompose_sub_tasks, bg>>
       ELSE \E r \in ResultLens :
            /\ history' = add_conversation(history, "task_result", "record", r)
            /\ IF get_queue(queue).n = 1
               THEN /\ camel_task' = Set(camel_task, d, [id |-> 2])
                    /\ sub_tasks' = Set(sub_tasks, d, Age(sub_tasks[d]))
                    /\ decompose_sub_tasks' = Age(decompose_sub_tasks)
                    /\ bg' = AgeBg(bg)
               ELSE UNCHANGED <<camel_task, sub_tasks, decompose_sub_tasks, bg>>
            /\ Take(d, <<"add_conversation", "new_task_state", "end", "remove_task">>,
                    "nts_confirm")
    /\ UNCHANGED <<registered, status, cleanups, nextEid, start_event_loop, workforce>>

\* elif item.action == Action.new_task_state: up to the three yields that
\* close the previous task (end, new_task_state, remove_task)
HandleNewTaskState(d) ==
    /\ Takes(d, "new_task_state")
    /\ IF camel_task[d] = NoTask
       THEN /\ Take(d, <<"error">>, "top")
            /\ UNCHANGED <<history, camel_task, sub_tasks, decompose_sub_tasks, bg>>
       ELSE \E r \in ResultLens :
            /\ history' = add_conversation(history, "task_result", "record", r)
            /\ IF get_queue(queue).n = 1
               THEN /\ camel_task' = Set(camel_task, d, [id |-> 2])
                    /\ sub_tasks' = Set(sub_tasks, d, Age(sub_tasks[d]))
                    /\ decompose_sub_tasks' = Age(decompose_sub_tasks)
                    /\ bg' = AgeBg(bg)
               ELSE UNCHANGED <<camel_task, sub_tasks, decompose_sub_tasks, bg>>
            /\ Take(d, <<"add_conversation", "end", "new_task_state", "remove_task">>,
                    "nts_confirm")
    /\ UNCHANGED <<registered, status, cleanups, nextEid, start_event_loop, workforce>>

\* mutation of NtsConfirm: a failed answer leaves the handler without the resume
NtsConfirmFailedAnswerLeaves(d) ==
    /\ pc[d] = "nts_confirm"
    /\ LET w == workforce[d]
       IN  IF w # NoEngine /\ cur[d].n = 1
           THEN /\ status' = "confirming"
                /\ workforce' = Set(workforce, d, EnginePause(w))
                /\ \E complex \in BOOLEAN :
                   IF complex
                   THEN /\ Cont(d, <<"workforce.pause", "question_confirm", "confirmed">>,
                                "nts_decompose")
                        /\ UNCHANGED history
                   ELSE \E ok \in BOOLEAN : \E a \in AnswerLens :
                        /\ history' = IF ok
                                      THEN add_conversation(history, "assistant", "text", a)
                                      ELSE history
                        /\ Cont(d, <<"workforce.pause", "question_confirm", "question_agent.step">>
                                   \o (IF ok THEN <<"add_conversation">> ELSE <<>>)
                                   \o <<"wait_confirm">>, IF ok THEN "nts_resume" ELSE "top")
           ELSE /\ Cont(d, <<>>, "top")
                /\ UNCHANGED <<status, workforce, history>>
    /\ UNCHANGED <<sub_tasks, decompose_sub_tasks, registered, queue, cleanups, nextSeq, nextEid, start_event_loop,
                   camel_task, bg>>

\* if workforce is not None and new_task_content: pause, classify, answer or confirm
NtsConfirm(d) ==
    /\ pc[d] = "nts_confirm"
    /\ LET w == workforce[d]
       IN  IF w # NoEngine /\ cur[d].n = 1
           THEN /\ status' = "confirming"
                /\ workforce' = Set(workforce, d, EnginePause(w))
                /\ \E complex \in BOOLEAN :
                   IF complex
                   THEN /\ Cont(d, <<"workforce.pause", "question_confirm", "confirmed">>,
                                "nts_decompose")
                        /\ UNCHANGED history
                   ELSE \E ok \in BOOLEAN : \E a \in AnswerLens :
                        /\ history' = IF ok
                                      THEN add_conversation(history, "assistant", "text", a)
                                      ELSE history
                        /\ Cont(d, <<"workforce.pause", "question_confirm", "question_agent.step">>
                                   \o (IF ok THEN <<"add_conversation">> ELSE <<>>)
                                   \o <<"wait_confirm">>, "nts_resume")
           ELSE /\ Cont(d, <<>>, "top")
                /\ UNCHANGED <<status, workforce, history>>
    /\ UNCHANGED <<sub_tasks, decompose_sub_tasks, registered, queue, cleanups, nextSeq, nextEid, start_event_loop,
                   camel_task, bg>>

\* after yield wait_confirm: workforce.resume(); continue
NtsResume(d) ==
    /\ pc[d] = "nts_resume"
    /\ workforce' = Set(workforce, d, EngineResume(workforce[d]))
    /\ Cont(d, <<"workforce.resume">>, "top")
    /\ UNCHANGED <<sub_tasks, decompose_sub_tasks, actorVars, nextEid, start_event_loop, camel_task, bg>>

\* puts of k streamed texts, then of the final progress item
RECURSIVE PutTexts(_, _, _)
PutTexts(q, k, sq) ==
    IF k = 0 THEN q ELSE PutTexts(put_queue(q, "decompose_text", 0, sq), k - 1, sq + 1)

\* after yield confirmed: status, the awaited decomposition, its progress item
NtsDecompose(d) ==
    /\ pc[d] = "nts_decompose"
    /\ status' = "confirmed"
    /\ \E ok \in BOOLEAN :
       IF ok
       THEN \E k \in 0..MaxChunks : \E n \in SubtaskCounts :
            /\ queue' = put_queue(PutTexts(queue, k, nextSeq), "decompose_progress",
                                  Decomposed(n), nextSeq + k)
            /\ nextSeq' = nextSeq + k + 1
            /\ sub_tasks' = Set(sub_tasks, d, ListOf(Decomposed(n), ThisTurn))
            /\ Cont(d, <<"handle_decompose_append_task", "put_queue">>, "top")
       ELSE /\ Cont(d, <<"handle_decompose_append_task", "error">>, "top")
            /\ UNCHANGED <<queue, nextSeq, sub_tasks>>
    /\ UNCHANGED <<decompose_sub_tasks, registered, history, cleanups, nextEid, start_event_loop, workforce,
                   camel_task, bg>>

\* elif item.action == Action.new_agent, and the except clauses it can reach
HandleNewAgent(d) ==
    /\ Takes(d, "new_agent")
    /\ LET w == workforce[d]
       IN  IF w = NoEngine
           THEN /\ Take(d, <<>>, "top")
                /\ UNCHANGED workforce
           ELSE \E outcome \in {"ok", "budget", "mpe", "exc"} :
                CASE outcome = "ok" ->
                       /\ workforce' = Set(workforce, d, EngineResume(EnginePause(w)))
                       /\ Take(d, <<"workforce.pause", "add_single_agent_worker",
                                    "workforce.resume">>, "top")
                  [] outcome = "budget" ->
                       /\ workforce' = Set(workforce, d, EnginePause(EnginePause(w)))
                       /\ Take(d, <<"workforce.pause", "workforce.pause",
                                    "budget_not_enough">>, "top")
                  [] outcome = "mpe" ->
                       /\ workforce' = Set(workforce, d, EnginePause(w))
                       /\ Take(d, <<"workforce.pause", "error">>, "exc_stop")
                  [] outcome = "exc" ->
                       /\ workforce' = Set(workforce, d, EnginePause(w))
                       /\ Take(d, <<"workforce.pause", "error">>, "top")
    /\ UNCHANGED <<sub_tasks, decompose_sub_tasks, registered, status, history, cleanups, nextEid, start_event_loop,
                   camel_task, bg>>

\* except ModelProcessingError, after yield error: stop a running engine
ExcStop(d) ==
    /\ pc[d] = "exc_stop"
    /\ LET w == workforce[d]
       IN  IF w # NoEngine /\ w.running
           THEN /\ workforce' = Set(workforce, d, EngineStop(w))
                /\ bg' = bg \cup {WorkforceStopBg(d, w.eid)}
                /\ Cont(d, <<"workforce.stop">>, "top")
           ELSE /\ Cont(d, <<>>, "top")
                /\ UNCHANGED <<workforce, bg>>
    /\ UNCHANGED <<sub_tasks, decompose_sub_tasks, actorVars, nextEid, start_event_loop, camel_task>>

\* elif item.action == Action.end: up to yield end
HandleEnd(d) ==
    /\ Takes(d, "end")
    /\ IF status = "done"
       THEN /\ Take(d, <<>>, "top")
            /\ UNCHANGED <<status, history>>
       ELSE \E r \in ResultLens :
            /\ status' = "done"
            /\ history' = add_conversation(history, "task_result", "record", r)
            /\ TakeSetting(d, <<"add_conversation", "end">>, "end_stop", r)
    /\ UNCHANGED <<sub_tasks, decompose_sub_tasks, registered, cleanups, nextEid, start_event_loop, workforce,
                   camel_task, bg>>

\* mutation of EndStop: the Task reference is kept
EndStopKeepsTask(d) ==
    /\ pc[d] = "end_stop"
    /\ workforce' = Set(workforce, d, NoEngine)
    /\ camel_task' = camel_task
    /\ Cont(d, IF workforce[d] # NoEngine THEN <<"workforce.stop_gracefully">> ELSE <<>>,
            "top")
    /\ UNCHANGED <<sub_tasks, decompose_sub_tasks, actorVars, nextEid, start_event_loop, bg>>

\* after yield end: stop_gracefully, workforce = None, camel_task = None
EndStop(d) ==
    /\ pc[d] = "end_stop"
    /\ workforce' = Set(workforce, d, NoEngine)
    /\ camel_task' = Set(camel_task, d, NoTask)
    /\ Cont(d, IF workforce[d] # NoEngine THEN <<"workforce.stop_gracefully">> ELSE <<>>,
            "top")
    /\ UNCHANGED <<sub_tasks, decompose_sub_tasks, actorVars, nextEid, start_event_loop, bg>>

\* elif item.action == Action.supplement
HandleSupplement(d) ==
    /\ Takes(d, "supplement")
    /\ LET w == workforce[d]
       IN  IF camel_task[d] = NoTask
           THEN /\ Take(d, <<"error">>, "top")
                /\ UNCHANGED <<status, bg>>
           ELSE /\ status' = "processing"
                /\ IF w # NoEngine
                   THEN /\ ~AtCap
                        /\ bg' = bg \cup {NewBg("exec", d, w.eid)}
                        /\ Take(d, <<"add_subtask", "node_start">>, "top")
                   ELSE /\ Take(d, <<"add_subtask">>, "top")
                        /\ UNCHANGED bg
    /\ UNCHANGED <<sub_tasks, decompose_sub_tasks, registered, history, cleanups, nextEid, start_event_loop, workforce,
                   camel_task>>

\* mutation of HandleStop: the engine is not stopped gracefully
HandleStopAbrupt(d) ==
    /\ Takes(d, "stop")
    /\ LET w == workforce[d]
           stopped == w # NoEngine /\ w.running
           b1 == IF stopped THEN bg \cup {WorkforceStopBg(d, w.eid)} ELSE bg
       IN  /\ workforce' = Set(workforce, d, IF stopped THEN EngineStop(w) ELSE w)
           /\ delete_task_lock(b1)
           /\ Take(d, (IF stopped THEN <<"workforce.stop">> ELSE <<>>)
                      \o <<"delete_task_lock">>, "exit_stop")
    /\ UNCHANGED <<sub_tasks, decompose_sub_tasks, status, history, nextEid, start_event_loop, camel_task>>

\* elif item.action == Action.stop: ... break
HandleStop(d) ==
    /\ Takes(d, "stop")
    /\ LET w == workforce[d]
           stopped == w # NoEngine /\ w.running
           w1 == IF stopped THEN EngineStop(w) ELSE w
           w2 == IF w # NoEngine THEN EngineStopGracefully(w1) ELSE w
           b1 == IF stopped
                 THEN bg \cup {WorkforceStopBg(d, w.eid)}
                 ELSE bg
       IN  /\ workforce' = Set(workforce, d, w2)
           /\ delete_task_lock(b1)
           /\ Take(d, (IF stopped THEN <<"workforce.stop">> ELSE <<>>)
                      \o (IF w # NoEngine THEN <<"workforce.stop_gracefully">> ELSE <<>>)
                      \o <<"delete_task_lock">>, "exit_stop")
    /\ UNCHANGED <<sub_tasks, decompose_sub_tasks, status, history, nextEid, start_event_loop, camel_task>>

\* ------------------------------------------------- background work
\* the dispatcher's workforce variable still refers to the engine t works on
Holds(t) == workforce[t.d] # NoEngine /\ workforce[t.d].eid = t.eid

bgFixed == <<registered, status, history, cleanups, ncmds, nimproves, nposts, nextEid, pc,
             start_event_loop, camel_task, disconnected, attaches, cur, trace, lastEv,
             sub_tasks, restVars>>

\* run_decomposition starts: the closure reads workforce now, and
\* node_make_sub_tasks, in a worker thread, resets the engine and sets RUNNING
DecompBegin(t) ==
    /\ t \in bg /\ t.kind = "decomp" /\ t.st = "new"
    /\ LET w == workforce[t.d]
       IN  IF w = NoEngine
           THEN /\ bg' = bg \ {t}
                /\ UNCHANGED workforce
           ELSE /\ bg' = (bg \ {t}) \cup {[t EXCEPT !.st = "run", !.eid = w.eid]}
                /\ workforce' = Set(workforce, t.d, [w EXCEPT !.state = "RUNNING"])
    /\ UNCHANGED <<bgFixed, queue, nextSeq, decompose_sub_tasks>>

\* on_stream_text: a text snapshot with a non-empty delta is enqueued
DecompText(t) ==
    /\ t \in bg /\ t.kind = "decomp" /\ t.st \in {"run", "orphan"}
    /\ t.chunks < MaxChunks
    /\ queue' = put_queue(queue, "decompose_text", 0, nextSeq)
    /\ nextSeq' = nextSeq + 1
    /\ bg' = (bg \ {t}) \cup {[t EXCEPT !.chunks = t.chunks + 1]}
    /\ UNCHANGED <<bgFixed, workforce, decompose_sub_tasks>>

\* run_decomposition ends: the progress item is enqueued, or an exception
\* is logged; the thread of a cancelled decomposition ends with no effect
DecompFinish(t) ==
    /\ t \in bg /\ t.kind = "decomp" /\ t.st \in {"run", "orphan"}
    /\ bg' = bg \ {t}
    /\ \E ok \in BOOLEAN : \E n \in SubtaskCounts :
       IF ok /\ t.st = "run"
       THEN /\ decompose_sub_tasks' = ListOf(Decomposed(n), t.turn)
            /\ IF camel_task[t.d] # NoTask
               THEN /\ queue' = put_queue(queue, "decompose_progress", Decomposed(n),
                                          nextSeq)
                    /\ nextSeq' = nextSeq + 1
               ELSE UNCHANGED <<queue, nextSeq>>
       ELSE UNCHANGED <<queue, nextSeq, decompose_sub_tasks>>
    /\ UNCHANGED <<bgFixed, workforce>>

\* node_start: the engine starts running
ExecBegin(t) ==
    /\ t \in bg /\ t.kind = "exec" /\ t.st = "new"
    /\ bg' = (bg \ {t}) \cup {[t EXCEPT !.st = "run"]}
    /\ workforce' = IF Holds(t)
                    THEN Set(workforce, t.d,
                             [workforce[t.d] EXCEPT !.state = "RUNNING", !.running = TRUE])
                    ELSE workforce
    /\ UNCHANGED <<bgFixed, queue, nextSeq, decompose_sub_tasks>>

\* node_start returns: finally, IDLE unless STOPPED
ExecFinish(t) ==
    /\ t \in bg /\ t.kind = "exec" /\ t.st = "run"
    /\ bg' = bg \ {t}
    /\ workforce' = IF Holds(t)
                    THEN LET w == workforce[t.d]
                         IN  Set(workforce, t.d,
                                 [w EXCEPT !.running = FALSE,
                                           !.state = IF w.state = "STOPPED" THEN "STOPPED"
                                                     ELSE "IDLE"])
                    ELSE workforce
    /\ UNCHANGED <<bgFixed, queue, nextSeq, decompose_sub_tasks>>

\* the task Workforce.stop created: task_lock.put_queue(ActionEndData())
PutEnd(t) ==
    /\ t \in bg /\ t.kind = "put_end"
    /\ bg' = bg \ {t}
    /\ queue' = put_queue(queue, "end", 0, nextSeq)
    /\ nextSeq' = nextSeq + 1
    /\ UNCHANGED <<bgFixed, workforce, decompose_sub_tasks>>

\* ------------------------------------------------------------------ Next
Command ==
    \/ post(1)
    \/ improve
    \/ supplement
    \/ stop
    \/ add_task
    \/ remove_task
    \/ skip_task
    \/ Callback
    \/ \E d \in Disp : Disconnect(d)

\* the steps step_solve takes by itself
Step(d) ==
    \/ OnDisconnect(d)
    \/ Block(d)
    \/ HandleImprove(d)
    \/ ImproveSetup(d)
    \/ HandleUpdateTask(d)
    \/ HandleAddTask(d)
    \/ HandleRemoveTask(d)
    \/ HandleSkipTask(d)
    \/ HandleStart(d)
    \/ HandlePassThrough(d)
    \/ HandlePause(d)
    \/ HandleResume(d)
    \/ HandleBudget(d)
    \/ HandleNewTaskState(d)
    \/ NtsConfirm(d)
    \/ NtsResume(d)
    \/ NtsDecompose(d)
    \/ HandleNewAgent(d)
    \/ ExcStop(d)
    \/ HandleEnd(d)
    \/ EndStop(d)
    \/ HandleSupplement(d)
    \/ HandleStop(d)

\* what happens to it from outside: a failing dequeue, the idle timeout
Fault(d) ==
    \/ DequeueFail(d)
    \/ IdleTimeout(d)

Background ==
    \E t \in bg :
        \/ DecompBegin(t)
        \/ DecompText(t)
        \/ DecompFinish(t)
        \/ ExecBegin(t)
        \/ ExecFinish(t)
        \/ PutEnd(t)

Next ==
    \/ Command
    \/ \E d \in Disp : Step(d)
    \/ \E d \in Disp : Fault(d)
    \/ Background

Spec == Init /\ [][Next]_vars

\* ------------------------------------------- SkipTask of any project id
SkipNext ==
    \/ Next
    \/ put_skip_task

SkipSpec == Init /\ [][SkipNext]_vars

\* ------------------------------------------- several start commands
\* POST /chat issued up to MaxPosts times for the one task id, with the
\* disconnect and the actions a start of turn puts on the queue
MultiStep(d) ==
    \/ OnDisconnect(d)
    \/ Block(d)
    \/ HandleImprove(d)
    \/ ImproveSetup(d)
    \/ HandlePassThrough(d)

Decomposition ==
    \E t \in bg :
        \/ DecompBegin(t)
        \/ DecompText(t)
        \/ DecompFinish(t)

MultiNext ==
    \/ \E d \in Disp : post(d)
    \/ \E d \in Disp : Disconnect(d)
    \/ \E d \in Disp : MultiStep(d)
    \/ Decomposition

MultiSpec == Init /\ [][MultiNext]_vars

\* ------------------------------------------- Start actions, one after another
\* executions that may be in flight together
MaxExec == 2

\* the start of the task's execution, asked for by the client
put_start ==
    /\ Enqueue("start", 0)
    /\ UNCHANGED <<status, bg>>

ExecStep(d) ==
    \/ Block(d)
    \/ HandleImprove(d)
    \/ ImproveSetup(d)
    \/ HandlePassThrough(d)
    \/ HandleStartUpTo(d, MaxExec)

Execution ==
    \E t \in bg :
        \/ ExecBegin(t)
        \/ ExecFinish(t)

ExecNext ==
    \/ post(1)
    \/ put_start
    \/ \E d \in Disp : ExecStep(d)
    \/ Decomposition
    \/ Execution

ExecSpec == Init /\ [][ExecNext]_vars

\* ------------------------------------------- progress after a disconnect
\* one start command, the stop command, the disconnect
LiveNext ==
    \/ post(1)
    \/ stop
    \/ \E d \in Disp : Disconnect(d)
    \/ \E d \in Disp : MultiStep(d) \/ HandleStop(d)
    \/ \E d \in Disp : Fault(d)
    \/ Decomposition

\* the event loop runs every dispatcher and every unit of background work
\* that can take a step; nothing obliges a client to send a command, a
\* dequeue to fail or the stream to stay idle for ten minutes
FairSpec ==
    /\ Init /\ [][LiveNext]_vars
    /\ \A d \in Disp : WF_vars(MultiStep(d) \/ HandleStop(d))
    /\ WF_vars(Decomposition)

\* ------------------------------------------- timeout_stream_wrapper
\* The wrapper around any event generator, by itself: time passes, the
\* generator yields, ends or raises, the consumer of the stream asks for the
\* next event or goes away.
\* mutation of Yield: the event goes out twice
YieldTwice(s, data, t) ==
    Append(Append(s, [id |-> data, at |-> t]), [id |-> data, at |-> t])

\* yield data: the event goes out, unchanged
Yield(s, data, t) == Append(s, [id |-> data, at |-> t])

\* time passes; wait_for(..., timeout=remaining_timeout) lets it pass up to
\* last_data_time + timeout_seconds
Tick ==
    /\ wrapper \in {"anext", "yield"}
    /\ clock < MaxTime
    /\ wrapper = "anext" => clock < last_data_time + TimeoutTicks
    /\ clock' = clock + 1
    /\ UNCHANGED <<taskVars, pureVars, last_data_time, generated, sent, wrapper>>

\* mutation of Forward: last_data_time is not set
ForwardNoReset ==
    /\ wrapper = "anext"
    /\ generated < MaxEvents
    /\ clock < last_data_time + TimeoutTicks
    /\ generated' = generated + 1
    /\ sent' = Yield(sent, generated + 1, clock)
    /\ wrapper' = "yield"
    /\ UNCHANGED <<taskVars, pureVars, clock, last_data_time>>

\* data = await asyncio.wait_for(generator.__anext__(), ...) returns in time;
\* last_data_time = time.time(); yield data
Forward ==
    /\ wrapper = "anext"
    /\ generated < MaxEvents
    /\ clock < last_data_time + TimeoutTicks
    /\ generated' = generated + 1
    /\ last_data_time' = clock
    /\ sent' = Yield(sent, generated + 1, clock)
    /\ wrapper' = "yield"
    /\ UNCHANGED <<taskVars, pureVars, clock>>

\* the consumer asks for the next event: elapsed, remaining_timeout, wait_for;
\* with no time remaining wait_for raises TimeoutError at once
Resume ==
    /\ wrapper = "yield"
    /\ LET elapsed == clock - last_data_time
           remaining_timeout == TimeoutTicks - elapsed
       IN  wrapper' = IF remaining_timeout <= 0 THEN "timeout" ELSE "anext"
    /\ UNCHANGED <<taskVars, pureVars, clock, last_data_time, generated, sent>>

\* except asyncio.TimeoutError: break (the error event is commented out)
Timeout ==
    /\ wrapper = "anext"
    /\ clock >= last_data_time + TimeoutTicks
    /\ wrapper' = "timeout"
    /\ UNCHANGED <<taskVars, pureVars, clock, last_data_time, generated, sent>>

\* except StopAsyncIteration: break
StopIteration ==
    /\ wrapper = "anext"
    /\ wrapper' = "end"
    /\ UNCHANGED <<taskVars, pureVars, clock, last_data_time, generated, sent>>

\* except Exception as e: raise
Raise ==
    /\ wrapper = "anext"
    /\ wrapper' = "raise"
    /\ UNCHANGED <<taskVars, pureVars, clock, last_data_time, generated, sent>>

\* except asyncio.CancelledError: raise
Cancel ==
    /\ wrapper \in {"anext", "yield"}
    /\ wrapper' = "cancelled"
    /\ UNCHANGED <<taskVars, pureVars, clock, last_data_time, generated, sent>>

StreamNext ==
    \/ Tick
    \/ Forward
    \/ Resume
    \/ Timeout
    \/ StopIteration
    \/ Raise
    \/ Cancel

StreamSpec == Init /\ [][StreamNext]_vars

\* ------------------------------------------- one decomposition, by itself
\* camel_task = Task(content=..., id=...); the engine may hold pending tasks
NewTask ==
    /\ dtask = Task(<<>>, <<>>)
    /\ \E id \in TaskIds : \E c \in Contents : dtask' = Task(id, c)
    /\ \E p \in {<<>>, <<Task(<<9>>, <<"p">>)>>} : pending' = p
    /\ UNCHANGED <<taskVars, streamVars, fnVars, ctxVars, textVars, returned, batch_calls, decomposing>>

\* await workforce.handle_decompose_append_task(camel_task, ...)
Decompose ==
    /\ dtask # Task(<<>>, <<>>)
    /\ decomposing = NoCall
    /\ \E valid \in BOOLEAN : \E ctx \in Contexts : \E cb \in BOOLEAN :
       \E kind \in {"generator", "list"} : \E bs \in BatchSeqs :
       \E lib \in {<<>>, Subs(dtask.id, <<1>>), Subs(dtask.id, <<1, 2>>)} :
          /\ kind = "list" => Len(bs) <= 1
          /\ LET r == handle_decompose_append_task(dtask, pending, valid, ctx,
                          [kind |-> kind, batches |-> bs], lib, cb)
             IN  /\ dtask' = r.task
                 /\ pending' = r.pending
                 /\ returned' = r.ret
                 /\ batch_calls' = r.calls
                 /\ decomposing' = [task |-> dtask, valid |-> valid, context |-> ctx,
                                    kind |-> kind, batches |-> bs, lib |-> lib, cb |-> cb,
                                    seen |-> r.seen]
    /\ UNCHANGED <<taskVars, streamVars, fnVars, ctxVars, textVars>>

DecomposeNext ==
    \/ NewTask
    \/ Decompose

DecomposeSpec == Init /\ [][DecomposeNext]_vars

\* ------------------------------------------- build_conversation_context
\* A text is a sequence of lines; a line is a label, the text after it and,
\* for a line of the file list, the path.  Absolute paths are numbered in
\* their string order:
\*   1 /w/.cache   2 /w/a.txt   3 /w/sub/b.txt   4 /w/sub/c.txt
MaxEntries == 3
Paths == 1..4
Dirs == {"/w", "/w/sub", "/gone"}

Line(k, v) == [k |-> k, v |-> v, f |-> 0]
FileLine(f) == [k |-> "  - ", v |-> "", f |-> f]

\* the entries a history can hold: a text for user and assistant, a text or
\* a dict for task_result
TaskData == [task_content : {"", "c"}, task_result : {"r"},
             working_directory : Dirs \cup {""}]
Entries ==
    {[role |-> "user", dict |-> FALSE, text |-> "u", data |-> d] :
        d \in {[task_content |-> "", task_result |-> "", working_directory |-> ""]}}
    \cup {[role |-> "assistant", dict |-> FALSE, text |-> "a", data |-> d] :
        d \in {[task_content |-> "", task_result |-> "", working_directory |-> ""]}}
    \cup {[role |-> "task_result", dict |-> FALSE, text |-> "t", data |-> d] :
        d \in {[task_content |-> "", task_result |-> "", working_directory |-> ""]}}
    \cup {[role |-> "task_result", dict |-> TRUE, text |-> "", data |-> d] : d \in TaskData}

\* os.walk(working_directory), filtered: no file whose name starts with a dot
walk(dir, files) ==
    IF dir = "/w" THEN files \cap {2, 3, 4}
    ELSE IF dir = "/w/sub" THEN files \cap {3, 4}
    ELSE {}

\* sorted(...)
RECURSIVE sorted(_)
sorted(S) ==
    IF S = {} THEN <<>>
    ELSE LET m == CHOOSE x \in S : \A y \in S : x <= y
         IN  <<m>> \o sorted(S \ {m})

\* format_task_context(task_data, skip_files=True)
format_task_context(task_data) ==
    (IF task_data.task_content # ""
     THEN <<Line("Previous Task: ", task_data.task_content)>> ELSE <<>>)
    \o (IF task_data.task_result # ""
        THEN <<Line("Previous Task Result: ", task_data.task_result)>> ELSE <<>>)

Blank == Line("", "")

\* the text one history entry adds to the context
RenderEntry(entry) ==
    IF entry.role = "task_result"
    THEN IF entry.dict
         THEN LET formatted_context == format_task_context(entry.data)
              IN  (IF formatted_context = <<>> THEN <<Blank>> ELSE formatted_context)
                  \o <<Blank>>
         ELSE <<Line("", entry.text)>>
    ELSE IF entry.role = "assistant"
    THEN <<Line("Assistant: ", entry.text), Blank>>
    ELSE <<>>

RECURSIVE RenderEntries(_)
RenderEntries(h) == IF h = <<>> THEN <<>> ELSE RenderEntry(Head(h)) \o RenderEntries(Tail(h))

\* working_directories: set() of the directories the task_result dicts name
working_directories(h) ==
    {h[i].data.working_directory :
        i \in {j \in 1..Len(h) : /\ h[j].role = "task_result" /\ h[j].dict
                                 /\ h[j].data.working_directory # ""}}

\* mutation of GeneratedFiles: one list per history entry, appended in turn
RECURSIVE GeneratedFilesPerEntry(_, _)
GeneratedFilesPerEntry(h, files) ==
    IF h = <<>> THEN <<>>
    ELSE (IF Head(h).role = "task_result" /\ Head(h).dict
          THEN sorted(walk(Head(h).data.working_directory, files)) ELSE <<>>)
         \o GeneratedFilesPerEntry(Tail(h), files)

\* all_generated_files: set(), then for file_path in sorted(all_generated_files)
GeneratedFiles(h, files) ==
    sorted(UNION {walk(dir, files) : dir \in working_directories(h)})

\* build_conversation_context(task_lock, header)
build_conversation_context(h, header, files) ==
    IF h = <<>>
    THEN <<>>
    ELSE LET listed == GeneratedFiles(h, files)
         IN  <<Line(header, "")>>
             \o RenderEntries(h)
             \o (IF listed # <<>>
                 THEN <<Line("Generated Files from Previous Tasks:", "")>>
                      \o [i \in 1..Len(listed) |-> FileLine(listed[i])]
                      \o <<Blank>>
                 ELSE <<>>)
             \o <<Blank>>

\* build_context_for_workforce(task_lock, options)
build_context_for_workforce(h, files) ==
    build_conversation_context(h, "=== CONVERSATION HISTORY ===", files)

\* an entry joins the history
AddEntry ==
    /\ ~built
    /\ Len(conversation_history) < MaxEntries
    /\ \E e \in Entries : conversation_history' = Append(conversation_history, e)
    /\ UNCHANGED <<taskVars, streamVars, fnVars, decVars, textVars, fs, context, built>>

\* an agent writes a file
WriteFile ==
    /\ ~built
    /\ \E f \in Paths \ fs : fs' = fs \cup {f}
    /\ UNCHANGED <<taskVars, streamVars, fnVars, decVars, textVars, conversation_history, context, built>>

\* context_for_coordinator = build_context_for_workforce(task_lock, options)
Build ==
    /\ ~built
    /\ context' = build_context_for_workforce(conversation_history, fs)
    /\ built' = TRUE
    /\ UNCHANGED <<taskVars, streamVars, fnVars, decVars, textVars, conversation_history, fs>>

ContextNext ==
    \/ AddEntry
    \/ WriteFile
    \/ Build

ContextSpec == Init /\ [][ContextNext]_vars

\* ------------------------------------------- on_stream_text
\* The agent streams the text of a decomposition as accumulated snapshots;
\* a text is a sequence of characters.
MaxSnapshots == 3
MaxText == 2
Texts == UNION {[1..n -> {"a", "b"}] : n \in 0..MaxText}

\* accumulated_content.startswith(last_content)
startswith(text, prefix) ==
    Len(prefix) <= Len(text) /\ SubSeq(text, 1, Len(prefix)) = prefix

\* mutation of on_stream_text: the accumulated content is sent as it comes
on_stream_text_whole(last, sentq, accumulated_content) ==
    LET delta_content == accumulated_content
    IN  [last_content |-> accumulated_content,
         queue |-> IF delta_content # <<>> THEN Append(sentq, delta_content) ELSE sentq]

\* on_stream_text(chunk): the delta against the snapshot before, the put of
\* a non-empty delta
on_stream_text(last, sentq, accumulated_content) ==
    LET delta_content ==
            IF startswith(accumulated_content, last)
            THEN SubSeq(accumulated_content, Len(last) + 1, Len(accumulated_content))
            ELSE accumulated_content
    IN  [last_content |-> accumulated_content,
         queue |-> IF delta_content # <<>> THEN Append(sentq, delta_content) ELSE sentq]

\* the agent streams one more snapshot
StreamText ==
    /\ Len(snapshots) < MaxSnapshots
    /\ \E chunk \in Texts :
          LET r == on_stream_text(last_content, deltas, chunk)
          IN  /\ last_content' = r.last_content
              /\ deltas' = r.queue
              /\ snapshots' = Append(snapshots, chunk)
    /\ UNCHANGED <<taskVars, streamVars, fnVars, decVars, ctxVars>>

\* stream_state = {..., "last_content": ""}: the decomposition of the next turn
NewStream ==
    /\ snapshots # <<>>
    /\ last_content' = <<>>
    /\ deltas' = <<>>
    /\ snapshots' = <<>>
    /\ UNCHANGED <<taskVars, streamVars, fnVars, decVars, ctxVars>>

TextNext ==
    \/ StreamText
    \/ NewStream

TextSpec == Init /\ [][TextNext]_vars

\* ------------------------------ Workforce._post_task, by itself
\* Workforce(...), add_single_agent_worker, self._task = task: an engine with
\* its children and with or without its main task
NewWorkforce ==
    /\ \E t \in {None, "main"} : \E c \in ChildLists :
          wf' = [task |-> t, children |-> c]
    /\ posted' = NoPost
    /\ UNCHANGED <<taskVars, streamVars, decVars, ctxVars, textVars, updVars>>

\* the base engine posts a task to an assignee
PostTask ==
    /\ posted = NoPost
    /\ \E task \in PostTaskIds : \E assignee_id \in NodeIds :
          posted' = _post_task(wf, task, assignee_id)
    /\ UNCHANGED <<taskVars, streamVars, decVars, ctxVars, textVars, updVars, wf>>

PostNext ==
    \/ NewWorkforce
    \/ PostTask

PostSpec == Init /\ [][PostNext]_vars

\* ------------------------------------ update_sub_tasks, by itself
\* update_sub_tasks(sub_tasks, update_tasks), as the UpdateTask handler calls it
UpdateSubTasks ==
    /\ updated = NoUpdate
    /\ \E l \in SubtaskLists : \E u \in UpdateMaps :
          updated' = [sub_tasks |-> l, update_tasks |-> u,
                      result |-> update_sub_tasks(l, u, 0)]
    /\ UNCHANGED <<taskVars, streamVars, decVars, ctxVars, textVars, postVars>>

UpdateNext == UpdateSubTasks

UpdateSpec == Init /\ [][UpdateNext]_vars

\* ------------------------------------------------------------- claims
InTrace(tr, x) == \E i \in 1..Len(tr) : tr[i] = x
Count(tr, x) == Cardinality({i \in 1..Len(tr) : tr[i] = x})

\* dispatcher d takes a step of step_solve in this transition
Stepped(d) == pc'[d] # pc[d] \/ cur'[d] # cur[d] \/ trace'[d] # trace[d]

\* what the step of d adds to its trace
NewTrace(d) ==
    IF cur'[d] = cur[d] /\ Len(trace'[d]) >= Len(trace[d])
    THEN SubSeq(trace'[d], Len(trace[d]) + 1, Len(trace'[d]))
    ELSE trace'[d]

\* C1: the events come in the enqueue order of the actions that cause them:
\* no event is caused by an action enqueued before the action that caused
\* the latest event emitted so far.
C1_EnqueueOrder == [][lastEv' >= lastEv]_vars

\* C2: at any time at most one dispatcher loop is alive for the task id.
C2_OneDispatcher == Cardinality({d \in Disp : Alive(d)}) <= 1

\* calls into the engine
EngineCalls == {"workforce.pause", "workforce.resume", "workforce.stop",
                "workforce.stop_gracefully", "BaseWorkforce.stop", "workforce.add_task",
                "workforce.remove_task", "add_single_agent_worker", "node_start",
                "run_decomposition", "handle_decompose_append_task"}

\* the decomposition of a turn of d is running, in its thread, on d's engine
DecompRunning(d) ==
    \E t \in bg : t.kind = "decomp" /\ t.st = "run" /\ t.d = d /\ Holds(t)

\* d calls into, replaces or discards its engine or its Task in this transition
Touches(d) ==
    /\ Stepped(d)
    /\ \/ \E i \in 1..Len(NewTrace(d)) : NewTrace(d)[i] \in EngineCalls
       \/ workforce'[d] = NoEngine /\ workforce[d] # NoEngine
       \/ camel_task'[d] # camel_task[d]

\* C3: while the decomposition of a turn is running on the engine, the
\* dispatcher does not call into, replace or discard that engine or its Task.
C3_SingleOwner == [][\A d \in Disp : DecompRunning(d) => ~Touches(d)]_vars

\* the item d dequeues in this transition
Dequeues(d) == cur'[d] # cur[d] /\ cur'[d] # NoItem

\* C4 as the chain states it: every change of status is one of
\* confirming->confirmed, confirmed->processing, processing->done, done->confirming.
C4_Chain ==
    [][status' # status =>
         <<status, status'>> \in {<<"confirming", "confirmed">>, <<"confirmed", "processing">>,
                                  <<"processing", "done">>, <<"done", "confirming">>}]_vars

\* C4, amended: every change of status is made by one of these operations
\* and leads to the status of that operation, whatever the status was:
\* to confirming by the improve command (from done only) and by NewTaskState
\* with an engine, to confirmed by a complex start of turn and by the
\* decomposition of NewTaskState, to processing by Start and Supplement,
\* to done by End, SkipTask and the disconnect handling.
C4_StatusChange ==
    [][status' # status =>
         \/ /\ status' = "confirming"
            /\ \/ status = "done" /\ nimproves' = nimproves + 1
               \/ \E d \in Disp : pc[d] = "nts_confirm" /\ pc'[d] # pc[d]
         \/ /\ status' = "confirmed"
            /\ \E d \in Disp : pc[d] \in {"improve_setup", "nts_decompose"} /\ pc'[d] = "top"
         \/ /\ status' = "processing"
            /\ \E d \in Disp : Dequeues(d) /\ cur'[d].kind \in {"start", "supplement"}
         \/ /\ status' = "done"
            /\ \E d \in Disp :
                 \/ Dequeues(d) /\ cur'[d].kind \in {"end", "skip_task"}
                 \/ pc[d] = "top" /\ disconnected[d] /\ pc'[d] = "exit_disconnect"]_vars

\* C4 witness: Start has moved the status to processing
C4_Witness ==
    \E d \in Disp :
        /\ cur[d].kind = "start" /\ trace[d] = <<"node_start">>
        /\ status = "processing"
        /\ pc[d] = "top"

\* C5: of two End or SkipTask actions handled in succession, the second
\* changes no state and emits no event.
C5_Idempotent ==
    [][\A d \in Disp :
         (/\ Dequeues(d)
          /\ cur[d].kind \in {"end", "skip_task"}
          /\ cur'[d].kind \in {"end", "skip_task"})
         => /\ trace'[d] = <<>>
            /\ UNCHANGED <<status, history, workforce, camel_task, lastEv>>]_vars

\* d begins a turn in this transition: Improve, or the bootstrap
TurnBegun(d) ==
    /\ Dequeues(d)
    /\ start_event_loop[d] \/ cur'[d].kind = "improve"

\* C6: a turn begun while the history holds more than 100000 characters
\* emits context_too_long and nothing else: the status stays, the classifier
\* is not called, no engine, Task or background work is made.
C6_TooLong ==
    [][\A d \in Disp :
         (TurnBegun(d) /\ TotalChars(history) > MaxHistoryLength)
         => /\ trace'[d] = <<"context_too_long">>
            /\ pc'[d] = "top"
            /\ UNCHANGED <<status, workforce, camel_task, bg>>]_vars

\* d handles a Stop action in this transition
StopHandled(d) == pc'[d] = "exit_stop" /\ pc[d] # "exit_stop"

\* once the loop has ended, d emits nothing and handles nothing
Ended(d) ==
    pc[d] = "exit_stop" => pc'[d] = pc[d] /\ trace'[d] = trace[d] /\ cur'[d] = cur[d]

C8_FirstCheck ==
    [][\A d \in Disp :
         (pc[d] = "top" /\ start_event_loop[d] /\ disconnected[d] /\ Stepped(d))
         => /\ pc'[d] = "exit_disconnect"
            /\ queue' = queue
            /\ ~HasYield(trace'[d])
            /\ lastEv' = lastEv
            /\ status' = "done"
            /\ InTrace(trace'[d], "delete_task_lock")
            /\ cleanups' = cleanups + 1]_vars

\* C8 witness: the loop ended at the first check and left actions in the queue
C8_Witness ==
    \E d \in Disp :
        /\ pc[d] = "exit_disconnect"
        /\ start_event_loop[d]
        /\ queue # <<>>
        /\ status = "done"
        /\ trace[d] = <<"delete_task_lock">>

\* C9: once the client of d has disconnected, the dispatcher eventually
\* ends with the actor cleaned up.
C9_Cleanup == \A d \in Disp : disconnected[d] ~> (pc[d] \in ExitPcs /\ ~registered)

\* the ways the loop of d ends
ByDisconnect(d) == pc[d] = "top" /\ disconnected[d] /\ pc'[d] = "exit_disconnect"
ByStop(d) == Takes(d, "stop") /\ pc'[d] = "exit_stop"
ByTimeout(d) == pc[d] = "wait" /\ queue = <<>> /\ pc'[d] = "exit_timeout"

C11_Tracked == \A t \in bg : t.st # "orphan" => t \in background_tasks

\* the entry a SkipTask appends to the history
SkipRecord == [role |-> "task_result", shape |-> "record", chars |-> SkipMessageLen]

IsPrefix(a, b) == Len(a) <= Len(b) /\ SubSeq(b, 1, Len(a)) = a

\* C12: a SkipTask handled in a status other than done appends its task_result
\* entry to the history, emits end and leaves the loop alive and the actor
\* registered; an Improve dequeued next by the same dispatcher is handled as
\* a turn, on a history that holds the entries from before the skip followed
\* by the skip's entry; no step removes or changes an entry of the history.
C12_SkipThenImprove ==
    [][\A d \in Disp :
         /\ (Dequeues(d) /\ cur'[d].kind = "skip_task" /\ status # "done")
            => /\ history' = Append(history, SkipRecord)
               /\ InTrace(trace'[d], "end")
               /\ pc'[d] = "top"
               /\ registered'
         /\ (/\ TurnBegun(d) /\ cur'[d].kind = "improve"
             /\ cur[d].kind = "skip_task" /\ InTrace(trace[d], "end"))
            => /\ history[Len(history)] = SkipRecord
               /\ IsPrefix(history, history')
               /\ HasYield(trace'[d])
               /\ Alive(d)'
         /\ IsPrefix(history, history')]_vars

\* C12 witness: after an answered first turn and a skip, the follow-up
\* question was answered; the history holds the three entries in order
C12_Witness ==
    \E d \in Disp :
        /\ cur[d].kind = "improve" /\ cur[d].seq > 1
        /\ InTrace(trace[d], "wait_confirm")
        /\ Len(history) = 3
        /\ history[1].role = "assistant"
        /\ history[2] = SkipRecord
        /\ history[3].role = "assistant"

\* the events among the calls and yields of a handler
Events(tr) == {i \in 1..Len(tr) : tr[i] \in EventNames}

\* d begins a turn without attachments that the classifier judges simple
SimpleTurn(d) ==
    /\ TurnBegun(d)
    /\ ~attaches[d]
    /\ InTrace(trace'[d], "question_confirm")
    /\ InTrace(trace'[d], "question_agent.step")

DecompStarted(d) == \E t \in bg : t.kind = "decomp" /\ t.d = d /\ t.tracked

\* d emits a final decomposition-progress event with a non-empty sub_tasks list
FinalProgress(d) ==
    /\ cur[d].kind = "decompose_progress"
    /\ cur[d].n > 0
    /\ trace[d] = <<"to_sub_tasks">>

\* C14: once the decomposition of a turn with attachments has been started,
\* the dispatcher eventually emits a final decomposition-progress event with
\* a non-empty sub_tasks list, unless the client disconnects or the loop ends.
C14_FinalProgress ==
    \A d \in Disp :
        (attaches[d] /\ DecompStarted(d))
        ~> (FinalProgress(d) \/ disconnected[d] \/ pc[d] \in ExitPcs)

C16_Budget ==
    [][\A d \in Disp :
         (Stepped(d) /\ InTrace(NewTrace(d), "budget_not_enough"))
         => /\ Count(trace'[d], "budget_not_enough") = 1
            /\ workforce[d] # NoEngine
               => /\ InTrace(NewTrace(d), "workforce.pause")
                  /\ workforce'[d] # NoEngine
                  /\ workforce'[d].state # "RUNNING"
            /\ workforce[d] = NoEngine => workforce'[d] = NoEngine
            /\ status' = status
            /\ history' = history
            /\ pc'[d] = "top"
            /\ registered']_vars

\* C16 witness: a BudgetExceeded action was handled while the engine was
\* running; the engine is paused and the loop is at its top
C16_Witness ==
    \E d \in Disp :
        /\ cur[d].kind = "budget_not_enough"
        /\ trace[d] = <<"workforce.pause", "budget_not_enough">>
        /\ workforce[d] # NoEngine
        /\ workforce[d].state = "PAUSED"
        /\ pc[d] = "top"

\* the queue grows by k actions, numbered in the order of their enqueues
Enqueued(k) ==
    /\ Len(queue') = Len(queue) + k
    /\ SubSeq(queue', 1, Len(queue)) = queue
    /\ \A i \in 1..k : queue'[Len(queue) + i].seq = nextSeq + i - 1
    /\ nextSeq' = nextSeq + k

\* the oldest action leaves the queue and is the one dispatcher d handles
Delivered(d) ==
    /\ queue # <<>>
    /\ queue' = Tail(queue)
    /\ cur'[d] = Head(queue)
    /\ \A e \in Disp \ {d} : cur'[e] = cur[e]
    /\ nextSeq' = nextSeq

StartLaunches(d) ==
    /\ Dequeues(d)
    /\ cur'[d].kind = "start"
    /\ InTrace(trace'[d], "node_start")

\* C20: a Start that launches the engine sets the status to processing and
\* hands node_start the non-empty subtask list decomposed from the Task of
\* the current turn: not an empty list, not the list of an earlier turn.
C20_StartList ==
    [][\A d \in Disp :
         StartLaunches(d) => (status' = "processing" /\ sub_tasks'[d] = ThisTurn)]_vars

\* the time the latest event was forwarded, or the wrapper started
LastForward == IF sent = <<>> THEN 0 ELSE sent[Len(sent)].at

\* C17: the wrapper ends the stream by its timeout only when no event was
\* forwarded for the idle bound, counted from the latest forwarded event or
\* from its start, and then emits nothing; no event is forwarded, and the
\* wait does not go on, once the bound has passed without one.
C17_IdleCut ==
    [][/\ (wrapper' = "timeout" /\ wrapper # "timeout")
          => (clock - LastForward >= TimeoutTicks /\ sent' = sent)
       /\ sent' # sent => clock - LastForward < TimeoutTicks
       /\ (wrapper = "anext" /\ clock - LastForward >= TimeoutTicks)
          => (clock' = clock /\ wrapper' \notin {"anext", "yield"})]_vars

\* C17 witness: two events were forwarded, the second less than the bound
\* after the first, and the stream was cut the bound after the second
C17_Witness ==
    /\ wrapper = "timeout"
    /\ Len(sent) = 2
    /\ sent[2].at > sent[1].at
    /\ clock - LastForward = TimeoutTicks

\* C18: the events sent to the client are, in order, the first events the
\* generator yielded, each once and unchanged, and what was sent stays sent.
C18_Prefix ==
    [][/\ Len(sent') <= generated'
       /\ \A i \in 1..Len(sent') : sent'[i].id = i
       /\ Len(sent') >= Len(sent)
       /\ SubSeq(sent', 1, Len(sent)) = sent]_vars

\* C18 witness: every event of the generator went out and the stream ended
C18_Witness ==
    /\ wrapper = "end"
    /\ generated = MaxEvents
    /\ Len(sent) = MaxEvents

\* the decomposer gave no subtask: none in its batches or its list, none in
\* task.subtasks
YieldedNothing ==
    /\ Flatten(decomposing.batches) = <<>>
    /\ decomposing.lib = <<>>

\* C21: handle_decompose_append_task returns a non-empty list; for a Task
\* with valid content whose decomposition gave no subtask it returns the one
\* fallback subtask, of id <task id>.1 and of the Task's content, and makes it
\* the Task's only subtask; the last call of on_stream_batch, the only one
\* with is_final, is given the returned list.
C21_Fallback ==
    decomposing.kind # "none"
    => /\ returned # <<>>
       /\ (decomposing.valid /\ YieldedNothing)
          => /\ returned = <<Task(Append(decomposing.task.id, 1), decomposing.task.content)>>
             /\ dtask.subtasks = returned
       /\ (decomposing.valid /\ decomposing.cb)
          => /\ batch_calls # <<>>
             /\ batch_calls[Len(batch_calls)] = [tasks |-> returned, is_final |-> TRUE]
             /\ \A i \in 1..(Len(batch_calls) - 1) : ~batch_calls[i].is_final

\* C21 witness: with a coordinator context, the generator gave two empty
\* batches; the fallback subtask was returned and given to the final callback
C21_Witness ==
    /\ decomposing.valid /\ decomposing.cb
    /\ decomposing.kind = "generator"
    /\ decomposing.context # <<>>
    /\ decomposing.batches = <<<<>>, <<>>>>
    /\ YieldedNothing
    /\ Len(returned) = 1
    /\ returned[1].id = Append(decomposing.task.id, 1)
    /\ Len(batch_calls) = 3

\* the paths of the file list of a text, in the order of its lines
ListedFiles(text) ==
    LET ls == SelectSeq(text, LAMBDA l : l.k = "  - ")
    IN  [i \in 1..Len(ls) |-> ls[i].f]

\* the files found under the working directories the history refers to
FoundFiles(h, files) ==
    UNION {walk(h[i].data.working_directory, files) :
              i \in {j \in 1..Len(h) : h[j].role = "task_result" /\ h[j].dict}}

\* the lines of the text that begin one list of generated files
ListTitles(text) ==
    {i \in 1..Len(text) : text[i].k = "Generated Files from Previous Tasks:"}

\* C22: the built context lists every generated file found under the
\* referenced working directories once, in one list, in ascending order of
\* absolute path, also when entries refer to the same directory or file.
C22_FilesOnce ==
    built
    => LET listed == ListedFiles(context)
           found == FoundFiles(conversation_history, fs)
       IN  /\ {listed[i] : i \in 1..Len(listed)} = found
           /\ Len(listed) = Cardinality(found)
           /\ \A i, j \in 1..Len(listed) : i < j => listed[i] < listed[j]
           /\ Cardinality(ListTitles(context)) = IF found = {} THEN 0 ELSE 1
           /\ \A t \in ListTitles(context) : \A i \in 1..Len(listed) :
                 context[t + i] = FileLine(listed[i])

\* C22 witness: three task_result entries, two of the same directory and one
\* of a directory inside it; the three files are listed once, in order
C22_Witness ==
    /\ built
    /\ Len(conversation_history) = 3
    /\ \A i \in 1..3 : conversation_history[i].role = "task_result"
                       /\ conversation_history[i].dict
    /\ conversation_history[1].data.working_directory = "/w/sub"
    /\ conversation_history[2].data.working_directory = "/w"
    /\ conversation_history[3].data.working_directory = "/w"
    /\ fs = Paths
    /\ ListedFiles(context) = <<2, 3, 4>>

\* the texts a task_result entry holds
TextsOf(entry) ==
    IF entry.dict
    THEN {entry.data.task_content, entry.data.task_result} \ {""}
    ELSE {entry.text}

TaskResults(h) == {i \in 1..Len(h) : h[i].role = "task_result"}

\* C23: the built context holds one compact reference, the line
\* [Previous Task Completed], for each task_result entry, and no text of a
\* task_result entry.
C23_Compact ==
    built
    => /\ Cardinality({i \in 1..Len(context) : context[i].k = "[Previous Task Completed]"})
          = Cardinality(TaskResults(conversation_history))
       /\ \A i \in TaskResults(conversation_history) : \A l \in 1..Len(context) :
             context[l].v \notin TextsOf(conversation_history[i])

\* the lines "role: content" of the user and assistant entries, in order
RoleLines(h) ==
    LET es == SelectSeq(h, LAMBDA e : e.role \in {"user", "assistant"})
    IN  [i \in 1..Len(es) |-> Line(IF es[i].role = "user" THEN "user: " ELSE "assistant: ",
                                   es[i].text)]

\* C24: the context of an empty history is the empty text; the context of
\* any other history begins with the header and holds, in the order of the
\* history, one line "role: content" for each user and assistant entry.
C24_Lines ==
    built
    => IF conversation_history = <<>>
       THEN context = <<>>
       ELSE /\ context[1] = Line("=== CONVERSATION HISTORY ===", "")
            /\ SelectSeq(context, LAMBDA l : l.k \in {"user: ", "assistant: "})
               = RoleLines(conversation_history)

\* a command that enqueues nothing: the supplement command when it raises
Refused == ncmds' = ncmds + 1 /\ queue' = queue

\* a supplement action joins the queue
SupplementEnqueued ==
    /\ Len(queue') = Len(queue) + 1
    /\ queue'[Len(queue')].kind = "supplement"
    /\ queue'[Len(queue')].seq = nextSeq

\* C25 as stated: a supplement command refused because the task is not done
\* enqueues nothing, changes no state of the actor, leaves every dispatcher
\* where it is, and an error event goes out on the stream of a dispatcher.
\* The refusal changes nothing a dispatcher reads, so the event would have to
\* come with it.
C25_ErrorEvent ==
    [][Refused
       => /\ UNCHANGED <<actorVars, bg, pc>>
          /\ \E d \in Disp : Alive(d) /\ trace'[d] # trace[d] /\ InTrace(trace'[d], "error")]_vars

\* C25, amended: a supplement command is refused exactly when the task is
\* not done; refused, it enqueues nothing, changes no state of the actor or
\* of a dispatcher, ends no stream and emits no event on one; accepted, it
\* enqueues one Supplement action.
C25_Refused ==
    [][/\ Refused
          => /\ status # "done"
             /\ UNCHANGED <<actorVars, bg, pc, localVars, lastEv, disconnected>>
       /\ SupplementEnqueued => status = "done" /\ status' = "done"]_vars

\* C25 witness: in the middle of the first turn a supplement command was
\* refused; the queue took no action but the first and the dispatcher goes on
C25_Witness ==
    /\ ncmds = 1
    /\ nextSeq = 2
    /\ status = "confirming"
    /\ pc[1] = "improve_setup"
    /\ lastEv = 1

\* the event and the engine operation of the three actions on the subtask tree
EditKinds == {"update_task", "add_task", "remove_task"}
EditEvent(kind) == IF kind = "update_task" THEN "to_sub_tasks" ELSE kind
EditCall(kind) == IF kind = "add_task" THEN "workforce.add_task" ELSE "workforce.remove_task"

\* C26: UpdateTask, AddTask or RemoveTask handled while the Task or the
\* engine does not exist emits one error event and nothing else, calls no
\* engine operation, leaves status, history and the cached subtasks as they
\* were and goes back to the top of the loop; handled while both exist, it
\* emits its own event, once, after the engine operation of AddTask and
\* RemoveTask.
C26_Guarded ==
    [][\A d \in Disp :
         (Dequeues(d) /\ cur'[d].kind \in EditKinds)
         => /\ pc'[d] = "top"
            /\ IF camel_task[d] = NoTask \/ workforce[d] = NoEngine
               THEN /\ trace'[d] = <<"error">>
                    /\ UNCHANGED <<status, history, sub_tasks, decompose_sub_tasks>>
               ELSE /\ Cardinality(Events(trace'[d])) = 1
                    /\ trace'[d][Len(trace'[d])] = EditEvent(cur'[d].kind)
                    /\ cur'[d].kind # "update_task"
                       => trace'[d][1] = EditCall(cur'[d].kind)]_vars

\* d finishes the handling of an End, a SkipTask or a Stop in this transition
Discarding(d) ==
    \/ Dequeues(d) /\ cur'[d].kind \in {"skip_task", "stop"}
    \/ Dequeues(d) /\ cur'[d].kind = "end" /\ pc'[d] = "top"
    \/ pc[d] = "end_stop" /\ Stepped(d)

\* what d holds once its loop has ended is held by nothing: the generator
\* has returned
HoldsNothing(d) ==
    \/ pc'[d] \in ExitPcs
    \/ workforce'[d] = NoEngine /\ camel_task'[d] = NoTask

\* C27 as stated: a dispatcher gets an engine only in the complex branch of
\* a start of turn, and only when it has none, and a Task only there or in
\* the NewTaskState that follows a Task; the complex branch keeps the engine
\* it finds; and once an End, a SkipTask or a Stop has been handled the
\* dispatcher holds neither engine nor Task.
C27_Lazy ==
    [][\A d \in Disp :
         /\ (workforce'[d] # NoEngine /\ workforce[d] = NoEngine) => pc[d] = "improve_setup"
         /\ (camel_task'[d] # NoTask /\ camel_task'[d] # camel_task[d])
            => \/ pc[d] = "improve_setup"
               \/ Dequeues(d) /\ cur'[d].kind = "new_task_state" /\ camel_task[d] # NoTask
         /\ (pc[d] = "improve_setup" /\ Stepped(d) /\ workforce[d] # NoEngine)
            => workforce'[d].eid = workforce[d].eid /\ nextEid' = nextEid
         /\ Discarding(d) => HoldsNothing(d)]_vars

\* each snapshot extends the one before it, the first the empty text
Growing(ss) ==
    \A i \in 1..Len(ss) : startswith(ss[i], IF i = 1 THEN <<>> ELSE ss[i - 1])

LastOf(ss) == IF ss = <<>> THEN <<>> ELSE ss[Len(ss)]

\* C28: when each snapshot extends the one before it, the deltas enqueued,
\* joined in the order of their enqueues, are the last snapshot; a snapshot
\* equal to the one before it enqueues nothing, and a snapshot that does not
\* extend the one before it is enqueued whole.
C28_Deltas ==
    [][snapshots' = Append(snapshots, LastOf(snapshots'))
       => LET chunk == LastOf(snapshots')
          IN  /\ Growing(snapshots') => Flatten(deltas') = chunk
              /\ chunk = LastOf(snapshots) => deltas' = deltas
              /\ (~startswith(chunk, LastOf(snapshots)) /\ chunk # <<>>)
                 => deltas' = Append(deltas, chunk)]_vars

\* C28 witness: three snapshots, the second equal to the first, the third
\* one character longer; two deltas went out
C28_Witness ==
    /\ snapshots = << <<"a">>, <<"a">>, <<"a", "b">> >>
    /\ deltas = << <<"a">>, <<"b">> >>

\* C29: the first action a dispatcher dequeues is the Improve its start
\* command enqueued and is handled as the start of turn for the initial
\* question; the bootstrap is made once; an action dequeued later is handled
\* by its kind, and is no Improve of a start command.  Under several start
\* commands every Improve in the queue is one of a start command.
C29_Bootstrap ==
    [][\A d \in Disp :
         /\ (Dequeues(d) /\ start_event_loop[d])
            => /\ cur'[d].kind = "improve"
               /\ ~start_event_loop'[d]
               /\ trace'[d] # <<>>
         /\ (Dequeues(d) /\ ~start_event_loop[d])
            => /\ cur'[d].kind # "improve"
               /\ cur'[d].kind \in PassThrough => trace'[d] = <<EventOf(cur'[d].kind)>>
         /\ ~start_event_loop[d] => ~start_event_loop'[d]]_vars

\* C30: once the loop of a dispatcher has ended, by a Stop, by a disconnect
\* or by the idle timeout that closed its stream, the registry no longer
\* holds the actor.
C30_Unregistered == \A d \in Disp : pc[d] \in ExitPcs => ~registered

\* the events of a trace, in the order of their yields
EventsOf(tr) == SelectSeq(tr, LAMBDA x : x \in EventNames)

ClosingEvents == <<"end", "new_task_state", "remove_task">>

\* C31: a NewTaskState handled while a Task exists appends one task_result
\* entry to the history and emits end, new_task_state and remove_task in that
\* order, and a wait_confirm, confirmed or error of the follow-up comes only
\* after the three; handled without a Task it emits one error event and
\* leaves the history, the status and the engine as they are.
C31_NewTaskState ==
    [][\A d \in Disp :
         /\ (Dequeues(d) /\ cur'[d].kind = "new_task_state")
            => IF camel_task[d] # NoTask
               THEN /\ Len(history') = Len(history) + 1
                    /\ IsPrefix(history, history')
                    /\ history'[Len(history')].role = "task_result"
                    /\ EventsOf(trace'[d]) = ClosingEvents
               ELSE /\ EventsOf(trace'[d]) = <<"error">>
                    /\ UNCHANGED <<history, status>>
                    /\ workforce'[d] = workforce[d]
         /\ (cur[d].kind = "new_task_state" /\ cur'[d] = cur[d] /\ Stepped(d)
             /\ \E i \in 1..Len(NewTrace(d)) :
                   NewTrace(d)[i] \in {"wait_confirm", "confirmed", "error"})
            => /\ IsPrefix(ClosingEvents, EventsOf(trace[d]))
               /\ IsPrefix(EventsOf(trace[d]), EventsOf(trace'[d]))]_vars

\* C31 witness: the three closing events went out and the direct answer of
\* the follow-up came after them
C31_Witness ==
    \E d \in Disp :
       /\ cur[d].kind = "new_task_state"
       /\ EventsOf(trace[d]) = ClosingEvents \o <<"wait_confirm">>
       /\ \E i \in 1..Len(history) : history[i].role = "task_result"

\* the position of the first x in a trace, 0 when there is none
FirstAt(tr, x) ==
    IF InTrace(tr, x) THEN CHOOSE i \in 1..Len(tr) : tr[i] = x /\ \A j \in 1..(i - 1) : tr[j] # x
    ELSE 0

\* the handling of a NewTaskState by d is over and gave a direct answer
AnsweredDirectly(d) ==
    /\ cur[d].kind = "new_task_state"
    /\ pc[d] = "top"
    /\ InTrace(trace[d], "question_agent.step")

\* C32: a NewTaskState with content, handled with an engine and classified
\* simple, pauses the engine before the classification and resumes it after
\* the direct answer, whether the answer was generated or failed: when the
\* handling is over the engine is not paused and the resume was its last call.
C32_SimpleResumes ==
    [][\A d \in Disp :
         /\ (pc[d] = "nts_confirm" /\ Stepped(d) /\ InTrace(NewTrace(d), "question_confirm"))
            => /\ NewTrace(d)[1] = "workforce.pause"
               /\ workforce[d].state = "RUNNING" => workforce'[d].state = "PAUSED"
               /\ InTrace(NewTrace(d), "question_agent.step") => pc'[d] = "nts_resume"
         /\ (pc[d] = "nts_resume" /\ Stepped(d))
            => /\ NewTrace(d) = <<"workforce.resume">>
               /\ pc'[d] = "top"
         /\ AnsweredDirectly(d)' /\ Stepped(d)
            => /\ workforce'[d].state # "PAUSED"
               /\ trace'[d][Len(trace'[d])] = "workforce.resume"
               /\ FirstAt(trace'[d], "workforce.pause") < FirstAt(trace'[d], "question_confirm")
               /\ FirstAt(trace'[d], "wait_confirm") < Len(trace'[d])]_vars

\* C32 witness: the answering agent failed (no assistant entry was added), the
\* error text went out as wait_confirm, and the engine that was running when
\* the NewTaskState arrived runs again
C32_Witness ==
    \E d \in Disp :
       /\ AnsweredDirectly(d)
       /\ Count(trace[d], "add_conversation") = 1
       /\ InTrace(trace[d], "wait_confirm")
       /\ workforce[d].state = "RUNNING"

\* the step appends one entry of the given role to the history
AppendsOne(role) ==
    /\ Len(history') = Len(history) + 1
    /\ IsPrefix(history, history')
    /\ history'[Len(history')].role = role

\* C33: an End handled in a status other than done sets the status to done,
\* appends one task_result entry and emits one end event, in that order, and
\* stops the engine gracefully only after the event; then the dispatcher holds
\* neither engine nor Task, its loop goes on and the actor is not cleaned up.
C33_End ==
    [][\A d \in Disp :
         /\ (Dequeues(d) /\ cur'[d].kind = "end" /\ status # "done")
            => /\ status' = "done"
               /\ AppendsOne("task_result")
               /\ trace'[d] = <<"add_conversation", "end">>
               /\ workforce'[d] = workforce[d]
               /\ pc'[d] = "end_stop"
               /\ UNCHANGED <<registered, cleanups>>
         /\ (pc[d] = "end_stop" /\ Stepped(d))
            => /\ NewTrace(d) = IF workforce[d] # NoEngine
                                THEN <<"workforce.stop_gracefully">> ELSE <<>>
               /\ workforce'[d] = NoEngine
               /\ camel_task'[d] = NoTask
               /\ pc'[d] = "top"
               /\ Count(trace'[d], "end") = 1
               /\ Count(trace'[d], "add_conversation") = 1
               /\ UNCHANGED <<registered, cleanups, status, history>>]_vars

\* C33 witness: an End was handled with an engine and a Task; both are gone,
\* the status is done, the loop waits for the next action of a live actor
C33_Witness ==
    \E d \in Disp :
       /\ cur[d].kind = "end"
       /\ trace[d] = <<"add_conversation", "end", "workforce.stop_gracefully">>
       /\ pc[d] = "top"
       /\ workforce[d] = NoEngine
       /\ camel_task[d] = NoTask
       /\ status = "done"
       /\ registered

C35_PauseResume ==
    [][\A d \in Disp :
         (Dequeues(d) /\ cur'[d].kind \in {"pause", "resume"})
         => /\ EventsOf(trace'[d]) = <<>>
            /\ queue' = Tail(queue)
            /\ UNCHANGED <<status, history, bg, registered, camel_task>>
            /\ pc'[d] = "top"
            /\ IF workforce[d] = NoEngine
               THEN trace'[d] = <<>> /\ workforce'[d] = NoEngine
               ELSE /\ trace'[d] = <<"workforce." \o cur'[d].kind>>
                    /\ workforce'[d] = IF cur'[d].kind = "pause"
                                       THEN EnginePause(workforce[d])
                                       ELSE EngineResume(workforce[d])]_vars

\* C35 witness: a Pause was handled with a running engine, which is paused now
C35_Witness ==
    \E d \in Disp :
       /\ cur[d].kind = "pause"
       /\ trace[d] = <<"workforce.pause">>
       /\ workforce[d].state = "PAUSED"
       /\ pc[d] = "top"

\* the scheduled Ends: the slots of the put_queue(ActionEndData()) tasks
PutEnds(b) == {t.slot : t \in {u \in b : u.kind = "put_end"}}

\* d makes the call x in this transition
Calls(d, x) == Stepped(d) /\ InTrace(NewTrace(d), x)

\* C36: each call of Workforce.stop stops the engine and schedules one End
\* as tracked background work, and a scheduled End leaves the background work
\* only by being put on the queue, so that the Stop, the disconnect and the
\* model error that call Workforce.stop each cause an End to be enqueued; the
\* stop of the base class, which SkipTask calls, schedules none.
C36_StopSchedulesEnd ==
    [][/\ \A d \in Disp :
            Calls(d, "workforce.stop")
            => /\ ~workforce'[d].running
               /\ workforce'[d].state = "STOPPED"
               /\ Cardinality(PutEnds(bg') \ PutEnds(bg)) = 1
               /\ \A t \in bg' : t.kind = "put_end" /\ t.slot \notin PutEnds(bg) => t.tracked
       /\ \A d \in Disp :
            Calls(d, "BaseWorkforce.stop") => PutEnds(bg') = PutEnds(bg) /\ queue' = Tail(queue)
       /\ PutEnds(bg) \ PutEnds(bg') # {}
            => queue' = put_queue(queue, "end", 0, nextSeq)]_vars

\* C37: for a task other than the engine's main task, _post_task puts one
\* assign_task action on the queue, with state running, the task's id and the
\* assignee's id (the node id it was given, or the agent id of that node),
\* and calls the parent's _post_task once with the same task and assignee;
\* for the main task it puts nothing and only calls the parent.
C37_PostTask ==
    (posted # NoPost /\ wf.task # None)
    => /\ posted.parent = << <<posted.task, posted.assignee_id>> >>
       /\ IF posted.task = wf.task
          THEN posted.puts = <<>>
          ELSE /\ Len(posted.puts) = 1
               /\ posted.puts[1].action = "assign_task"
               /\ posted.puts[1].state = "running"
               /\ posted.puts[1].task_id = posted.task
               /\ posted.puts[1].assignee_id \in {posted.assignee_id, AgentOf(posted.assignee_id)}

\* the rule of C38 applied down to a number of levels of nesting: the
\* subtasks whose id is a key, in their order, with the map's content
RECURSIVE KeptTo(_, _, _)
KeptTo(l, u, levels) ==
    IF levels = 0 THEN l
    ELSE LET kept == SelectSeq(l, LAMBDA t : t.id \in DOMAIN u)
         IN  [i \in 1..Len(kept) |->
                 [id |-> kept[i].id,
                  content |-> u[kept[i].id],
                  subtasks |-> KeptTo(kept[i].subtasks, u, levels - 1)]]

\* C38 as stated: the list after update_sub_tasks holds exactly the subtasks
\* whose id is a key of the update map, in their original order, each with
\* the map's content, and so do the subtasks of each kept Task, at every
\* level of nesting.
C38_EveryLevel ==
    updated # NoUpdate
    => updated.result = KeptTo(updated.sub_tasks, updated.update_tasks, MaxNesting)

\* C38, amended: the rule holds for the list and down to the sixth level of
\* nesting; the lists below the sixth level are left as they are.
C38_SixLevels ==
    updated # NoUpdate
    => updated.result = KeptTo(updated.sub_tasks, updated.update_tasks, MaxDepth + 1)

\* C38 witness: seven levels, the Task of the seventh level and the Tasks 3
\* have no key: Task 3 left the list, the Tasks of the upper levels have the
\* new content, in their order
C38_Witness ==
    /\ updated.sub_tasks = Nested(<<1, 1, 1, 1, 1, 1, 2>>)
    /\ DOMAIN updated.update_tasks = {1}
    /\ Len(updated.result) = 1
    /\ updated.result[1].content = "new"
    /\ Len(updated.result[1].subtasks) = 1

\* the executions in flight on the engine dispatcher d holds
InFlight(d) == {t \in bg : t.kind = "exec" /\ t.d = d /\ Holds(t)}

\* C39: at most one execution is in flight on an engine at any time: a Start
\* launches a node_start only when no node_start launched earlier on the same
\* engine is still in flight.
C39_OneExecution == \A d \in Disp : Cardinality(InFlight(d)) <= 1

\* the kinds of action whose handling appends a task_result entry
ResultKinds == {"skip_task", "end", "new_task_state"}

====
